---- MODULE Spec2Model ----
(***************************************************************************)
(* Model of nice-game's worker pools and futures (src/src/cpu_pool.rs):    *)
(* the two process-wide pools CPU_POOL and FS_POOL, CpuPool::dispatch, the *)
(* one-shot channel between a worker closure and its CpuFuture, and the    *)
(* two-stage DiskCpuFuture built by spawn_fs_then_cpu.                     *)
(***************************************************************************)
EXTENDS Integers, Sequences, FiniteSets, TLC

\* ---------------------------------------------------------------- bounds
\* Number of spawn_* calls made by the application.
MaxCalls == 2
\* Largest core count num_cpus::get() may report.
MaxCores == 2
\* The execution counter of a closure saturates here ("more than once").
ExecCap == 2

Calls == 1..MaxCalls
Stages == {1, 2}
Jobs == Calls \X Stages
Pools == {"fs", "cpu"}

Min(a, b) == IF a < b THEN a ELSE b
Max(a, b) == IF a > b THEN a ELSE b

\* ------------------------------------------------------- result values
R(t, v) == [tag |-> t, val |-> v]
None == R("none", 0)
\* Ok(CpuFuture) sent by the disk stage of spawn_fs_then_cpu: the payload is
\* the handle of the CPU-stage future, not a value.
OkSubfuture == R("sub", 0)
Pending == R("pending", 0)
Panicked == R("panic", 0)

VARIABLES
    cores,      \* num_cpus::get()
    alive,      \* alive[p]: live worker threads of pool p
    queue,      \* queue[p]: the pool's FIFO of spawned jobs
    running,    \* running[p]: jobs whose closure is executing on a worker
    ncalls,     \* spawn_* calls made so far
    kind,       \* kind[c]: which spawn function call c was
    execs,      \* execs[j]: how often the closure of job j was entered
    arg,        \* arg[c]: fs_result moved into the CPU-stage closure
    got,        \* got[c]: the value func_cpu was invoked with
    ret,        \* ret[j]: what the user closure of job j returned
    chan,       \* chan[j]: the oneshot channel of job j
    state,      \* state[c]: DiskCpuState / holder state of the future
    lastPoll,   \* lastPoll[c]: outcome of the latest poll(), Pending before
    firstRes    \* firstRes[c]: first resolved outcome poll() returned

poolVars == <<cores, alive, queue, running, ncalls, kind, execs, arg, got, ret,
              chan, state, lastPoll, firstRes>>

\* ------------------------------------------------ the framebuffer caches
\* State of a SpriteBatch (src/src/batch/sprite/mod.rs) or of the MeshBatch
\* of src/src/batch/mesh/mesh_batch.rs, and of the RenderTarget it draws to.
VARIABLES
    nobj,          \* GPU objects created so far; the next object is nobj + 1
    images,        \* images[n]: target.images()[n]
    sprite_batch,  \* the SpriteBatch: framebuffers, target_desc
    mesh_batch,    \* the MeshBatch: framebuffers, image_*, desc_target
    lastCall,      \* what the latest commands() call saw, did and returned
    stored         \* stored[n]: image and framebuffer the latest call on
                   \* slot n that got a framebuffer ran with

fbVars == <<nobj, images, sprite_batch, mesh_batch, lastCall, stored>>

\* ------------------------------------------------------- the G-buffers
\* State of the MeshBatch of src/src/batch/mesh/mod.rs.
VARIABLES
    gbuffers,      \* self.gbuffers, the GBuffers in use
    lastFrame,     \* what the latest MeshBatch::commands call saw and did
    frames,        \* frames recorded on the set in use: whether any, and the
                   \* history index of the latest
    nsets          \* GBuffers sets made so far

gbVars == <<gbuffers, lastFrame, frames, nsets>>

\* ------------------------------------------------------------- the text
\* State of a Font and of a TextSprite made from it
\* (src/src/batch/sprite/font.rs), and of the upload fences they wait on.
VARIABLES
    font,          \* the Font: glyphs, futures
    text_sprite,   \* the TextSprite: static_descs, positions, futures
    fences,        \* the GPU's side: which upload fences are signaled,
                   \* and whether the device is lost
    lastDraw       \* what the latest TextSprite::make_commands recorded

textVars == <<font, text_sprite, fences, lastDraw>>

\* --------------------------------------------------------- the textures
\* State of a TextureFuture (src/src/texture/immutable.rs) and of what it
\* waits for.
VARIABLES
    tex,           \* the TextureFuture: its SpriteState with the channels of
                   \* the two CpuFutures and the SpriteGpuData
    texFence,      \* the GPU's side of the upload fence of the texture
    texLog         \* the latest poll's outcome, the first Ready and the
                   \* future as it was on return from that poll

texVars == <<tex, texFence, texLog>>

\* -------------------------------------------------------- the mesh files
VARIABLES
    mesh_load      \* a Mesh::from_file call (src/src/batch/mesh/mesh/mod.rs):
                   \* the file, the channel to its future, what the loader did

meshVars == <<mesh_load>>

\* ------------------------------------------------ windows and their events
VARIABLES
    window,        \* window[w]: a Window (src/src/window.rs): whether it was
                   \* created, its resized flag, whether its swapchain is out
                   \* of step with its surface, how its last present() ended
    events_loop,   \* the EventsLoop: the keys of its resized map, the events
                   \* winit has queued, whether a handler panicked
    present        \* the Window::present call in progress, if any

winVars == <<window, events_loop, present>>

\* -------------------------------------------- the descriptors of materials
VARIABLES
    mesh_materials, \* mesh_materials[m]: the Atom slot Material::desc of a Mesh and
                   \* whether the texture continuation of the material ran
    make_commands  \* the render thread inside or between Mesh::make_commands
                   \* calls: the material it is at, the descriptor it took

slotVars == <<mesh_materials, make_commands>>

\* --------------------------------------------------- the loads of a font
VARIABLES
    load_log       \* the Font::load calls made so far: how many, per glyph id
                   \* how often it was rasterised, failed and inserted, and
                   \* the font before the latest call

fontVars == <<load_log>>

\* ------------------------------------------- the mutexes of the two pools
VARIABLES
    pool_mutex,    \* pool_mutex[p]: the thread holding the Mutex of CPU_POOL or
                   \* FS_POOL, -1 when it is free
    spawners       \* the threads that call spawn_*: the application's callers
                   \* and the disk pool's worker (thread 0), what each is
                   \* doing, and the closures queued on the pools

lockVars == <<pool_mutex, spawners>>

renderVars == <<fbVars, gbVars, textVars, texVars, meshVars,
    winVars,
    slotVars,
    fontVars,
    lockVars>>
vars == <<poolVars, renderVars>>

\* Number of images of the render target (swapchain images).
MaxSlots == 2
\* Number of distinct image sizes.
MaxDim == 2
\* GPU objects that are created in one behaviour.
MaxObjs == 20

Slots == 1..MaxSlots
Dims == 1..MaxDim

\* Objects are told apart by id; id 0 is "no object".
NoImage == [id |-> 0, dim |-> 0]
NoFramebuffer == [id |-> 0, atts |-> <<>>]
NoDesc == [id |-> 0, of |-> <<>>]
\* lib.rs:170  struct ImageFramebuffer { image: Weak<..>, framebuffer: Arc<..> }
ImageFramebuffer(image, framebuffer) ==
    [image |-> image, framebuffer |-> framebuffer]
NoSlot == ImageFramebuffer(NoImage, NoFramebuffer)
NoSpriteBatch ==
    [exists |-> FALSE, framebuffers |-> [n \in Slots |-> NoSlot],
     target_desc |-> NoDesc]
NoMeshBatch ==
    [exists |-> FALSE, framebuffers |-> [n \in Slots |-> NoSlot],
     image_color |-> NoImage, image_normal |-> NoImage,
     image_depth |-> NoImage, desc_target |-> NoDesc]
NoCall ==
    [batch |-> "none", slot |-> 0, image |-> NoImage, fail |-> "none",
     pre |-> NoSpriteBatch, preStored |-> NoSlot,
     hit |-> FALSE, built |-> NoFramebuffer, used |-> NoFramebuffer,
     result |-> "none"]

\* window.rs:83-113  the window starts with the images of its swapchain.
FbInit ==
    /\ nobj = MaxSlots
    /\ images = [n \in Slots |-> [id |-> n, dim |-> 1]]
    /\ sprite_batch = NoSpriteBatch
    /\ mesh_batch = NoMeshBatch
    /\ lastCall = NoCall
    /\ stored = [n \in Slots |-> NoSlot]

\* mesh/mod.rs:351-361  struct GBuffers; before MeshBatch::new there is none.
NoGBuffers ==
    [exists |-> FALSE, size |-> NoImage, color |-> NoImage,
     normal |-> NoImage, depth |-> NoImage,
     history_descs |-> <<NoDesc, NoDesc>>, target_descs |-> <<NoDesc, NoDesc>>,
     history |-> <<NoImage, NoImage>>,
     history_index |-> FALSE, history_initialized |-> FALSE]
NoFrames == [recorded |-> FALSE, index |-> FALSE]
NoFrame ==
    [result |-> "none", fail |-> "none", image |-> NoImage,
     pre |-> NoGBuffers, prev |-> NoFrames, rebuilt |-> FALSE,
     index |-> FALSE, written |-> NoImage, history_desc |-> NoDesc,
     target_desc |-> NoDesc]

GbInit ==
    /\ gbuffers = NoGBuffers
    /\ lastFrame = NoFrame
    /\ frames = NoFrames
    /\ nsets = 0

\* Glyph ids of the font.
MaxGlyphs == 2
\* Glyphs laid out for the text of a sprite.
MaxEntries == 2

Glyphs == 1..MaxGlyphs
Entries == 1..MaxEntries

NoTextSprite ==
    [exists |-> FALSE, static_descs |-> {}, positions |-> <<>>, futures |-> {}]
NoDraw ==
    [result |-> "none", draws |-> {}, timeouts |-> {}, blocked |-> FALSE]

\* font.rs:30-37  Font::from_file: no glyph loaded, no upload started.
TextInit ==
    /\ font = [glyphs |-> [g \in Glyphs |-> "absent"], futures |-> {}]
    /\ text_sprite = NoTextSprite
    /\ fences = [pos |-> [i \in Entries |-> FALSE],
                 glyph |-> [g \in Glyphs |-> FALSE],
                 lost |-> FALSE]
    /\ lastDraw = NoDraw

\* Images a texture file can decode to.
MaxTexImages == 2
\* Polls of a TextureFuture in one behaviour.
MaxPolls == 4

NoTexture ==
    [state |-> "none", disk |-> [data |-> None, complete |-> FALSE],
     cpu |-> [data |-> None, complete |-> FALSE], spawned |-> FALSE,
     image |-> 0]
TexInit ==
    /\ tex = NoTexture
    /\ texFence = "unsignaled"
    /\ texLog = [last |-> None, first |-> None, snap |-> NoTexture,
                 polls |-> 0, ready |-> 0]

NoFile == [vertex_count |-> 0, index_count |-> 0, material_count |-> 0,
           len |-> 0]
NoMeshLoad ==
    [state |-> "none", file |-> NoFile, oomAt |-> 0,
     chan |-> [data |-> None, complete |-> FALSE],
     allocs |-> 0, result |-> "none", poll |-> Pending]
MeshInit == mesh_load = NoMeshLoad

\* Windows the application may create.
MaxWindows == 1
\* Events winit delivers in one behaviour.
MaxEvents == 3
Windows == 1..MaxWindows

NoWindow == [created |-> FALSE, resized |-> FALSE, stale |-> FALSE,
             ret |-> "none"]
WinInit ==
    /\ window = [w \in Windows |-> NoWindow]
    /\ events_loop = [resized |-> {}, events |-> <<>>, sent |-> 0,
                      panicked |-> FALSE]
    /\ present = [window |-> 0, pc |-> "idle", took |-> FALSE]

\* Materials of the mesh that is drawn.
MaxMeshMaterials == 2
\* Frames drawn in one behaviour.
MaxFrames == 4
MeshMaterials == 1..MaxMeshMaterials

SlotInit ==
    /\ mesh_materials = [m \in MeshMaterials |-> [desc |-> "default", swapped |-> FALSE]]
    /\ make_commands = [pc |-> "idle", mat |-> 1, desc |-> "none", frames |-> 0,
                        raced |-> FALSE]

\* Font::load calls in one behaviour.
MaxLoads == 4

FontInit ==
    load_log = [calls |-> 0,
                rasterised |-> [g \in Glyphs |-> 0],
                failed |-> [g \in Glyphs |-> 0],
                inserted |-> [g \in Glyphs |-> 0],
                last |-> [id |-> 0, present |-> FALSE,
                          glyphs |-> <<>>, futures |-> {}]]

\* Application threads that call the spawn functions.
MaxCallers == 2
\* spawn_* calls the application makes in one behaviour.
MaxSpawns == 3

LockInit ==
    /\ pool_mutex = [p \in Pools |-> -1]
    /\ spawners = [thread |-> [t \in 0..MaxCallers |->
                                    [pc |-> "idle", pool |-> "fs", chain |-> FALSE]],
                   fs_queue |-> <<>>, cpu_jobs |-> 0, calls |-> 0]

\* The rendering state while only the pools run.
RenderInit == FbInit /\ GbInit /\ TextInit /\ TexInit /\ MeshInit /\ WinInit /\ SlotInit /\ FontInit /\ LockInit

\* ------------------------------------------------------------ the pools
\* cpu_pool.rs:6  CpuPool::new(min(1, num_cpus::get() - 1))
CpuPoolSize(n) == Min(1, n - 1)
\* A disk pool of two workers.
FsPoolSizeTwo == 1 + 1
\* cpu_pool.rs:7  CpuPool::new(1)
FsPoolSize == 1

\* CpuPool::new: ThreadPool::builder().pool_size(thread_count) starts
\* thread_count worker threads.
CpuPoolNew(thread_count) == thread_count

\* ------------------------------------------------------ oneshot channel
\* oneshot::channel(): empty slot, not complete.
NewChan == [data |-> None, complete |-> FALSE]

\* Sender::send(t) followed by the drop of the sender: the value is stored
\* unless the receiver is gone (complete already set), and complete is set.
ChanSend(ch, t) ==
    [data |-> IF ch.complete THEN ch.data ELSE t, complete |-> TRUE]

\* Drop of the sender without a send (the closure unwound), or drop of the
\* receiver: complete is set.
ChanClose(ch) == [ch EXCEPT !.complete = TRUE]

\* Receiver::poll: Pending until complete; then the stored value is taken
\* out of the slot, and an empty slot is Canceled.
RecvPoll(ch) ==
    IF ~ch.complete THEN [res |-> Pending, ch |-> ch]
    ELSE IF ch.data # None
         THEN [res |-> ch.data, ch |-> [ch EXCEPT !.data = None]]
         ELSE [res |-> R("canceled", 0), ch |-> ch]

TypeOK ==
    /\ cores \in 1..MaxCores
    /\ ncalls \in 0..MaxCalls
    /\ \A p \in Pools : alive[p] \in Nat /\ running[p] \subseteq Jobs

Init ==
    /\ cores \in 1..MaxCores
    /\ alive = [p \in Pools |->
                  IF p = "cpu" THEN CpuPoolNew(CpuPoolSize(cores))
                  ELSE CpuPoolNew(FsPoolSize)]
    /\ queue = [p \in Pools |-> <<>>]
    /\ running = [p \in Pools |-> {}]
    /\ ncalls = 0
    /\ kind = [c \in Calls |-> "none"]
    /\ execs = [j \in Jobs |-> 0]
    /\ arg = [c \in Calls |-> 0]
    /\ got = [c \in Calls |-> 0]
    /\ ret = [j \in Jobs |-> None]
    /\ chan = [j \in Jobs |-> NewChan]
    /\ state = [c \in Calls |-> "none"]
    /\ lastPoll = [c \in Calls |-> Pending]
    /\ firstRes = [c \in Calls |-> None]
    /\ RenderInit

\* CpuPool::dispatch: a fresh oneshot channel, the closure is queued on the
\* pool, the receiver is returned inside the CpuFuture.
Dispatch(q, j) == Append(q, j)

\* spawn_cpu(func)
SpawnCpu ==
    /\ ncalls < MaxCalls
    /\ LET c == ncalls + 1 IN
        /\ ncalls' = c
        /\ kind' = [kind EXCEPT ![c] = "cpu"]
        /\ queue' = [queue EXCEPT !["cpu"] = Dispatch(@, <<c, 1>>)]
        /\ chan' = [chan EXCEPT ![<<c, 1>>] = NewChan]
        /\ state' = [state EXCEPT ![c] = "CpuFuture"]
    /\ UNCHANGED renderVars
    /\ UNCHANGED <<cores, alive, running, execs, arg, got, ret, lastPoll, firstRes>>

\* spawn_fs(func)
SpawnFs ==
    /\ ncalls < MaxCalls
    /\ LET c == ncalls + 1 IN
        /\ ncalls' = c
        /\ kind' = [kind EXCEPT ![c] = "fs"]
        /\ queue' = [queue EXCEPT !["fs"] = Dispatch(@, <<c, 1>>)]
        /\ chan' = [chan EXCEPT ![<<c, 1>>] = NewChan]
        /\ state' = [state EXCEPT ![c] = "CpuFuture"]
    /\ UNCHANGED renderVars
    /\ UNCHANGED <<cores, alive, running, execs, arg, got, ret, lastPoll, firstRes>>

\* spawn_fs_then_cpu(func_fs, func_cpu): only the disk-stage closure is
\* dispatched here; func_cpu is moved into it.
SpawnFsThenCpu ==
    /\ ncalls < MaxCalls
    /\ LET c == ncalls + 1 IN
        /\ ncalls' = c
        /\ kind' = [kind EXCEPT ![c] = "chain"]
        /\ queue' = [queue EXCEPT !["fs"] = Dispatch(@, <<c, 1>>)]
        /\ chan' = [chan EXCEPT ![<<c, 1>>] = NewChan]
        /\ state' = [state EXCEPT ![c] = "LoadingDisk"]
    /\ UNCHANGED renderVars
    /\ UNCHANGED <<cores, alive, running, execs, arg, got, ret, lastPoll, firstRes>>

\* ---------------------------------------------------------- the workers
\* A worker that leaves the job in the queue.
TakeJobKeep(q) == q
\* A worker thread receives the next message of the pool: the job leaves the
\* queue.
TakeJob(q) == Tail(q)

\* A CPU stage that is handed a default value instead.
CpuStageArgDefault(fs_result) == 0
\* The value the CPU-stage closure passes to func_cpu: the fs_result it
\* captured (cpu_pool.rs:38).
CpuStageArg(fs_result) == fs_result

\* A free worker of pool p takes the oldest job and enters its closure.
WorkerStart(p) ==
    /\ queue[p] # <<>>
    /\ Cardinality(running[p]) < alive[p]
    /\ LET j == Head(queue[p])
           c == j[1]
       IN
        /\ queue' = [queue EXCEPT ![p] = TakeJob(@)]
        /\ running' = [running EXCEPT ![p] = @ \cup {j}]
        /\ execs' = [execs EXCEPT ![j] = Min(@ + 1, ExecCap)]
        /\ got' = IF j[2] = 2 THEN [got EXCEPT ![c] = CpuStageArg(arg[c])] ELSE got
    /\ UNCHANGED renderVars
    /\ UNCHANGED <<cores, alive, ncalls, kind, arg, ret, chan, state, lastPoll, firstRes>>

\* A disk stage that dispatches func_cpu whatever func_fs returned.
DispatchesCpuStageAlways(out) == TRUE
\* What the disk-stage closure of spawn_fs_then_cpu does with the result of
\* func_fs: Err(e) is returned as it is (the ? operator), Ok(v) dispatches
\* func_cpu to the CPU pool and returns Ok(its CpuFuture).
DispatchesCpuStage(out) == out.tag = "ok"

\* A wrapper that unwraps the Result of the send.
WorkerSurvivesSendUnwrap(sendFailed) == ~sendFailed
\* send.send(func(cx)); under #[allow(unused_must_use)] (cpu_pool.rs:59-61):
\* the Result of the send is ignored, so a failed send does not unwind the
\* worker.
WorkerSurvivesSend(sendFailed) == TRUE

\* The closure of job j returns out (Ok(v) or Err(e)); dispatch's wrapper
\* sends it on the channel and ignores a failed send; the worker is free.
WorkerReturn(p, j, out) ==
    LET c == j[1]
        chained == kind[c] = "chain" /\ j[2] = 1
        spawn == chained /\ DispatchesCpuStage(out)
        sent == IF spawn THEN OkSubfuture ELSE out
        rxGone == chan[j].complete
    IN
    /\ j \in running[p]
    /\ running' = [running EXCEPT ![p] = @ \ {j}]
    /\ ret' = [ret EXCEPT ![j] = out]
    /\ arg' = IF spawn THEN [arg EXCEPT ![c] = out.val] ELSE arg
    /\ queue' = IF spawn THEN [queue EXCEPT !["cpu"] = Dispatch(@, <<c, 2>>)]
                ELSE queue
    /\ chan' = IF spawn
               THEN [chan EXCEPT ![j] = ChanSend(@, sent),
                                 ![<<c, 2>>] = IF rxGone THEN ChanClose(NewChan)
                                               ELSE NewChan]
               ELSE [chan EXCEPT ![j] = ChanSend(@, sent)]
    /\ alive' = IF WorkerSurvivesSend(rxGone) THEN alive
                ELSE [alive EXCEPT ![p] = @ - 1]
    /\ UNCHANGED renderVars
    /\ UNCHANGED <<cores, ncalls, kind, execs, got, state, lastPoll, firstRes>>

\* The closure of job j panics: the worker thread unwinds and ends, the
\* sender is dropped without a send.
WorkerPanic(p, j) ==
    /\ j \in running[p]
    /\ running' = [running EXCEPT ![p] = @ \ {j}]
    /\ alive' = [alive EXCEPT ![p] = @ - 1]
    /\ ret' = [ret EXCEPT ![j] = Panicked]
    /\ chan' = [chan EXCEPT ![j] = ChanClose(@)]
    /\ UNCHANGED renderVars
    /\ UNCHANGED <<cores, queue, ncalls, kind, execs, arg, got, state, lastPoll, firstRes>>

\* ---------------------------------------------------------- the futures
\* CpuFuture::poll (cpu_pool.rs:76-85).
CpuFuturePoll(ch) ==
    LET r == RecvPoll(ch) IN
    [ch |-> r.ch,
     res |-> CASE r.res.tag = "pending" -> Pending
               [] r.res.tag = "canceled" -> Panicked      \* unreachable!()
               [] r.res.tag = "err" -> R("err", r.res.val)
               [] OTHER -> R("ready", r.res.val)]

\* From<io::Error> for DiskCpuError (cpu_pool.rs:135-139).
FromIoError(e) == R("DiskError", e)
\* A CPU-stage error tagged as a disk error.
MapCpuErrAsDisk(e) == R("DiskError", e)
\* map_err(|err| DiskCpuError::CpuError(err)) (cpu_pool.rs:116).
MapCpuErr(e) == R("CpuError", e)

\* The second match of DiskCpuFuture::poll (cpu_pool.rs:115-121).
DiskCpuPollCpu(ch1, ch2) ==
    LET p2 == CpuFuturePoll(ch2) IN
    [state |-> "LoadingCpu", ch1 |-> ch1, ch2 |-> p2.ch,
     res |-> IF p2.res.tag = "err" THEN MapCpuErr(p2.res.val) ELSE p2.res]

\* A poll that polls the CPU stage but leaves the state in LoadingDisk.
DiskCpuPollNoTransition(st, ch1, ch2) ==
    IF st = "LoadingDisk"
    THEN LET p1 == CpuFuturePoll(ch1) IN
         CASE p1.res.tag = "err" ->
                [state |-> st, ch1 |-> p1.ch, ch2 |-> ch2, res |-> FromIoError(p1.res.val)]
           [] p1.res.tag = "ready" ->
                [DiskCpuPollCpu(p1.ch, ch2) EXCEPT !.state = st]
           [] OTHER ->
                [state |-> st, ch1 |-> p1.ch, ch2 |-> ch2, res |-> p1.res]
    ELSE DiskCpuPollCpu(ch1, ch2)

\* DiskCpuFuture::poll (cpu_pool.rs:100-122).
DiskCpuPoll(st, ch1, ch2) ==
    IF st = "LoadingDisk"
    THEN LET p1 == CpuFuturePoll(ch1) IN
         CASE p1.res.tag = "err" ->
                [state |-> st, ch1 |-> p1.ch, ch2 |-> ch2, res |-> FromIoError(p1.res.val)]
           [] p1.res.tag = "ready" -> DiskCpuPollCpu(p1.ch, ch2)
           [] OTHER ->
                [state |-> st, ch1 |-> p1.ch, ch2 |-> ch2, res |-> p1.res]
    ELSE DiskCpuPollCpu(ch1, ch2)

Resolved(r) == r.tag \in {"ready", "err", "DiskError", "CpuError"}
Held(c) == state[c] \in {"CpuFuture", "LoadingDisk", "LoadingCpu"}

\* What the poller sees and keeps: a panic in poll unwinds the polling
\* thread, which drops the future.
Observe(c, res, st) ==
    /\ lastPoll' = [lastPoll EXCEPT ![c] = res]
    /\ firstRes' = IF firstRes[c] = None /\ Resolved(res)
                   THEN [firstRes EXCEPT ![c] = res] ELSE firstRes
    /\ state' = [state EXCEPT ![c] = IF res = Panicked THEN "dropped" ELSE st]

\* The holder of a CpuFuture from spawn_cpu / spawn_fs polls it.
PollCpuFuture(c) ==
    /\ state[c] = "CpuFuture"
    /\ LET p == CpuFuturePoll(chan[<<c, 1>>]) IN
        /\ chan' = [chan EXCEPT ![<<c, 1>>] = p.ch]
        /\ Observe(c, p.res, "CpuFuture")
    /\ UNCHANGED renderVars
    /\ UNCHANGED <<cores, alive, queue, running, ncalls, kind, execs, arg, got, ret>>

\* The holder of a DiskCpuFuture polls it.
PollDiskCpuFuture(c) ==
    /\ state[c] \in {"LoadingDisk", "LoadingCpu"}
    /\ LET p == DiskCpuPoll(state[c], chan[<<c, 1>>], chan[<<c, 2>>]) IN
        /\ chan' = [chan EXCEPT ![<<c, 1>>] = p.ch1, ![<<c, 2>>] = p.ch2]
        /\ Observe(c, p.res, p.state)
    /\ UNCHANGED renderVars
    /\ UNCHANGED <<cores, alive, queue, running, ncalls, kind, execs, arg, got, ret>>

\* The holder drops the future: its receiver is dropped, and with a
\* DiskCpuFuture still in LoadingDisk so is a subfuture waiting in the slot.
DropFuture(c) ==
    /\ Held(c)
    /\ state' = [state EXCEPT ![c] = "dropped"]
    /\ chan' =
        CASE state[c] = "CpuFuture" -> [chan EXCEPT ![<<c, 1>>] = ChanClose(@)]
          [] state[c] = "LoadingDisk" ->
                [chan EXCEPT ![<<c, 1>>] = ChanClose(@),
                             ![<<c, 2>>] = IF chan[<<c, 1>>].data = OkSubfuture
                                           THEN ChanClose(@) ELSE @]
          [] OTHER -> [chan EXCEPT ![<<c, 2>>] = ChanClose(@)]
    /\ UNCHANGED renderVars
    /\ UNCHANGED <<cores, alive, queue, running, ncalls, kind, execs, arg, got, ret,
                   lastPoll, firstRes>>

\* The closures handed to the spawn functions are inputs: each returns Ok
\* or Err with a payload that tells the calls and the stages apart, or panics.
Payload(j) == IF j[2] = 1 THEN j[1] ELSE MaxCalls + j[1]
Outcomes(j) == {R(t, Payload(j)) : t \in {"ok", "err"}}

WorkerFinish(p) ==
    \E j \in Jobs : (\E out \in Outcomes(j) : WorkerReturn(p, j, out)) \/ WorkerPanic(p, j)

Next ==
    \/ SpawnCpu
    \/ SpawnFs
    \/ SpawnFsThenCpu
    \/ \E p \in Pools : WorkerStart(p)
    \/ \E p \in Pools, j \in Jobs : \E out \in Outcomes(j) : WorkerReturn(p, j, out)
    \/ \E p \in Pools, j \in Jobs : WorkerPanic(p, j)
    \/ \E c \in Calls : PollCpuFuture(c)
    \/ \E c \in Calls : PollDiskCpuFuture(c)
    \/ \E c \in Calls : DropFuture(c)

Spec == Init /\ [][Next]_vars

\* The pool workers run whenever they have work, a closure that was entered
\* ends, and the holder of a future keeps polling it.
Fairness ==
    /\ \A p \in Pools : WF_vars(WorkerStart(p))
    /\ \A p \in Pools : WF_vars(WorkerFinish(p))
    /\ \A c \in Calls : WF_vars(PollCpuFuture(c) \/ PollDiskCpuFuture(c))

FairSpec == Spec /\ Fairness

\* Only the pool workers are scheduled fairly (ThreadPool worker loop);
\* holders of futures may stop polling at any time.
WorkerFairSpec ==
    /\ Spec
    /\ \A p \in Pools : WF_vars(WorkerStart(p))
    /\ \A p \in Pools : WF_vars(WorkerFinish(p))

\* ================================================================ claims
Chain(c) == kind[c] = "chain"
Plain(c) == kind[c] \in {"cpu", "fs"}
InQueue(p, j) == \E i \in 1..Len(queue[p]) : queue[p][i] = j
Returned(j) == ret[j].tag \in {"ok", "err"}
\* Worker threads pool p was created with.
Created(p) == IF p = "cpu" THEN CpuPoolNew(CpuPoolSize(cores)) ELSE CpuPoolNew(FsPoolSize)
\* Job j has been handed to a pool by dispatch.
Dispatched(j) ==
    /\ kind[j[1]] # "none"
    /\ j[2] = 2 => Chain(j[1]) /\ ret[<<j[1], 1>>].tag = "ok"
\* The pool job j was dispatched to.
PoolOf(j) == IF Chain(j[1]) THEN (IF j[2] = 1 THEN "fs" ELSE "cpu") ELSE kind[j[1]]

\* Jobs of pool p whose closure panicked.
PanickedIn(p) == {j \in Jobs : ret[j] = Panicked /\ Dispatched(j) /\ PoolOf(j) = p}

\* C1: func_cpu of a spawn_fs_then_cpu call is entered only after func_fs has
\* returned Ok(v), and the value it is invoked with is that v.
C1_CpuAfterDiskOk ==
    \A c \in Calls :
        (Chain(c) /\ (execs[<<c, 2>>] > 0 \/ InQueue("cpu", <<c, 2>>))) =>
            /\ ret[<<c, 1>>] = R("ok", Payload(<<c, 1>>))
            /\ arg[c] = ret[<<c, 1>>].val
            /\ execs[<<c, 2>>] > 0 => got[c] = ret[<<c, 1>>].val

\* Two chained calls whose CPU stages both ran, each with its own disk value.
C1_Witness ==
    /\ MaxCalls >= 2
    /\ Chain(1) /\ Chain(2)
    /\ execs[<<1, 2>>] = 1 /\ execs[<<2, 2>>] = 1
    /\ got[1] = Payload(<<1, 1>>) /\ got[2] = Payload(<<2, 1>>)

\* C2: when func_fs returns an io::Error, func_cpu is never dispatched to the
\* CPU pool nor executed, and the first poll that returns anything but Pending
\* returns Err(DiskCpuError::DiskError(e)) with that error.
C2_DiskErrorShortCircuits ==
    \A c \in Calls :
        (Chain(c) /\ ret[<<c, 1>>].tag = "err") =>
            /\ execs[<<c, 2>>] = 0
            /\ ~InQueue("cpu", <<c, 2>>)
            /\ lastPoll[c] # Pending => firstRes[c] = R("DiskError", ret[<<c, 1>>].val)

\* A failed disk stage reported as DiskError on a machine whose CPU pool has
\* a live worker.
C2_Witness ==
    \E c \in Calls :
        /\ Chain(c) /\ ret[<<c, 1>>].tag = "err"
        /\ lastPoll[c] = R("DiskError", Payload(<<c, 1>>))
        /\ alive["cpu"] > 0

\* C3: once poll() has returned a resolved result, every later poll() of the
\* same future returns that same result (no panic, no Pending).
C3_PollIdempotent ==
    \A c \in Calls : firstRes[c] # None => lastPoll[c] = firstRes[c]

\* C4: a closure that returns Err(e) makes poll yield Err(e), and a closure
\* that panics on the worker does not make poll panic.
C4_FailureSurfaced ==
    \A c \in Calls :
        Plain(c) =>
            /\ (ret[<<c, 1>>].tag = "err" /\ firstRes[c] # None) =>
                    firstRes[c] = R("err", ret[<<c, 1>>].val)
            /\ ret[<<c, 1>>] = Panicked => lastPoll[c] # Panicked

\* C5: the CPU pool is created with max(1, n - 1) workers for every core
\* count n >= 1, and the disk pool with exactly 1.
C5_PoolSizes ==
    /\ Created("cpu") = Max(1, cores - 1)
    /\ Created("fs") = 1
    /\ (\A j \in Jobs : ret[j] # Panicked) =>
            alive["cpu"] = Max(1, cores - 1) /\ alive["fs"] = 1

\* C6: at most one disk-stage closure is executing at any instant.
C6_DiskSerial == Cardinality(running["fs"]) <= 1

\* One disk closure executing while another disk task waits in the queue.
C6_Witness == Cardinality(running["fs"]) = 1 /\ queue["fs"] # <<>>

\* C7: the closure of every dispatched job is entered at most once; until it
\* is entered the job is in the queue of its pool, once, and never after; and,
\* the workers being scheduled fairly, every pool that has a live worker
\* ends up with its queue drained, so that each of its jobs was entered
\* exactly once.
C7_ExactlyOnce ==
    /\ [](\A j \in Jobs :
            /\ execs[j] <= 1
            /\ \A p \in Pools :
                Cardinality({i \in 1..Len(queue[p]) : queue[p][i] = j}) =
                    IF Dispatched(j) /\ execs[j] = 0 /\ p = PoolOf(j) THEN 1 ELSE 0)
    /\ <>[](\A p \in Pools : alive[p] > 0 => queue[p] = <<>>)

\* A closure that ran exactly once although its future was never polled.
C7_Witness ==
    \E c \in Calls :
        /\ Plain(c) /\ execs[<<c, 1>>] = 1 /\ Returned(<<c, 1>>)
        /\ lastPoll[c] = Pending /\ Held(c)

\* The result of call c was produced after its CpuFuture had been dropped:
\* the closure returned, the slot is empty and nothing was ever received.
Discarded(c) ==
    /\ Plain(c) /\ state[c] = "dropped"
    /\ Returned(<<c, 1>>) /\ chan[<<c, 1>>].data = None /\ firstRes[c] = None

\* C8: when the CpuFuture is dropped before the closure finishes, the closure
\* still runs to completion, its result is discarded, and the worker thread
\* does not fail: worker threads end only through a closure that panics.
C8_DroppedFutureHarmless ==
    /\ \A c \in Calls :
        Discarded(c) => execs[<<c, 1>>] = 1 /\ \A p \in Pools : <<c, 1>> \notin running[p]
    /\ \A p \in Pools : alive[p] = Created(p) - Cardinality(PanickedIn(p))
    /\ \A c \in Calls :
        (Plain(c) /\ state[c] = "dropped" /\ lastPoll[c] = Pending /\ Returned(<<c, 1>>))
            => chan[<<c, 1>>].data \in {None, ret[<<c, 1>>]}

\* The result of call 1 was discarded and the same worker then ran call 2.
C8_Witness ==
    /\ MaxCalls >= 2
    /\ Discarded(1) /\ kind[2] = kind[1]
    /\ execs[<<2, 1>>] = 1 /\ Returned(<<2, 1>>)

\* C9: for every core count, a spawn_fs_then_cpu call whose closures terminate
\* and whose future is polled again and again resolves (Ready or Err).
C9_EventuallyResolved ==
    \A c \in Calls :
        Chain(c) ~> \/ firstRes[c] # None
                    \/ state[c] = "dropped"
                    \/ \E j \in Jobs : ret[j] = Panicked

\* C10: a DiskCpuFuture returns DiskError(e) exactly for a func_fs that
\* returned Err(e), and CpuError(e) exactly for a func_cpu that returned
\* Err(e), which is after func_fs returned Ok.
C10_ErrorTags ==
    \A c \in Calls :
        Chain(c) =>
            /\ lastPoll[c].tag # "err" /\ firstRes[c].tag # "err"
            /\ lastPoll[c].tag = "DiskError" =>
                    ret[<<c, 1>>] = R("err", lastPoll[c].val) /\ execs[<<c, 2>>] = 0
            /\ lastPoll[c].tag = "CpuError" =>
                    ret[<<c, 1>>].tag = "ok" /\ ret[<<c, 2>>] = R("err", lastPoll[c].val)
            /\ (firstRes[c] # None /\ ret[<<c, 1>>].tag = "err") =>
                    firstRes[c].tag = "DiskError"
            /\ (firstRes[c] # None /\ ret[<<c, 2>>].tag = "err") =>
                    firstRes[c].tag = "CpuError"

\* A CPU-stage failure reported as CpuError after a successful disk stage.
C10_Witness ==
    \E c \in Calls :
        /\ Chain(c) /\ ret[<<c, 1>>].tag = "ok"
        /\ lastPoll[c] = R("CpuError", Payload(<<c, 2>>))

\* C21: a DiskCpuFuture changes state at most once, from LoadingDisk to
\* LoadingCpu, in the very poll that takes the disk stage's Ok(subfuture) out
\* of its channel; it never returns to LoadingDisk; and the value of the CPU
\* stage is taken out of its channel only by a poll that ends in LoadingCpu.
C21_StateMonotonic ==
    [][\A c \in Calls :
        LET diskReady == /\ chan[<<c, 1>>].data = OkSubfuture
                         /\ chan'[<<c, 1>>].data = None
            cpuTaken == /\ chan[<<c, 2>>].data # None
                        /\ chan'[<<c, 2>>].data = None
        IN  /\ state[c] = "LoadingCpu" => state'[c] # "LoadingDisk"
            /\ (state[c] = "LoadingDisk" /\ state'[c] = "LoadingCpu") => diskReady
            /\ (state[c] = "LoadingDisk" /\ diskReady) => state'[c] # "LoadingDisk"
            /\ cpuTaken => state'[c] = "LoadingCpu"
            /\ (state[c] = "LoadingDisk" /\ lastPoll'[c] # lastPoll[c]
                    /\ state'[c] = "LoadingDisk") =>
                  lastPoll'[c].val # Payload(<<c, 2>>)]_vars

\* A DiskCpuFuture that moved to LoadingCpu and returned the CPU stage's
\* value from there.
C21_Witness ==
    \E c \in Calls :
        /\ Chain(c) /\ state[c] = "LoadingCpu"
        /\ chan[<<c, 1>>].data = None /\ chan[<<c, 2>>].data = None
        /\ lastPoll[c] = R("ready", Payload(<<c, 2>>))

\* ======================================================================
\* The framebuffer caches of SpriteBatch (batch/sprite/mod.rs) and of the
\* MeshBatch of batch/mesh/mesh_batch.rs
\* ======================================================================
notFb == <<poolVars, gbVars, textVars, texVars, meshVars,
    winVars,
    slotVars,
    fontVars,
    lockVars>>

\* Arc::ptr_eq: the two references are the same object.
PtrEq(a, b) == a.id = b.id

\* Images that still have a strong reference: those of the target and those
\* attached to a framebuffer held in a slot (a framebuffer owns its
\* attachments).
\* Weak::upgrade: the image if it is still alive.
Upgrade(weak) ==
    LET held(batch) ==
            UNION {{batch.framebuffers[n].framebuffer.atts[i].id :
                        i \in DOMAIN batch.framebuffers[n].framebuffer.atts} :
                    n \in Slots}
        live == {images[n].id : n \in Slots}
                    \cup held(sprite_batch) \cup held(mesh_batch)
    IN IF weak.id # 0 /\ weak.id \in live THEN weak ELSE NoImage

\* A lookup that takes any cached image of the same size for the target's.
CacheLookupByDimensions(slot, image) ==
    IF Upgrade(slot.image) # NoImage /\ Upgrade(slot.image).dim = image.dim
    THEN slot.framebuffer ELSE NoFramebuffer
\* sprite/mod.rs:109-114, mesh_batch.rs:98-103  the cached framebuffer of the
\* slot if its weak image upgrades to the very image of the target.
CacheLookup(slot, image) ==
    IF Upgrade(slot.image) # NoImage /\ PtrEq(image, Upgrade(slot.image))
    THEN slot.framebuffer ELSE NoFramebuffer

\* framebuffer.width(), framebuffer.height(): those of the target image,
\* which is the last attachment.
FbDim(fb) == fb.atts[Len(fb.atts)].dim

\* window.rs:127-138  the swapchain is recreated: every image of the target
\* is replaced by a new one, of the same or of another size.
RecreateImages(d) ==
    /\ nobj + MaxSlots <= MaxObjs
    /\ images' = [n \in Slots |-> [id |-> nobj + n, dim |-> d]]
    /\ nobj' = nobj + MaxSlots
    /\ UNCHANGED <<sprite_batch, mesh_batch, lastCall, stored>>
    /\ UNCHANGED notFb

\* sprite/mod.rs:37-75  SpriteBatch::new: the target descriptor set, then one
\* framebuffer per image of the target.
SpriteBatchNew(fail) ==
    /\ ~sprite_batch.exists /\ ~mesh_batch.exists
    /\ nobj + MaxSlots + 1 <= MaxObjs
    /\ IF fail
       THEN UNCHANGED <<nobj, sprite_batch>>
       ELSE /\ nobj' = nobj + MaxSlots + 1
            /\ sprite_batch' =
                [exists |-> TRUE,
                 target_desc |-> [id |-> nobj + 1, of |-> <<images[1].dim>>],
                 framebuffers |->
                    [n \in Slots |->
                        ImageFramebuffer(images[n],
                            [id |-> nobj + 1 + n, atts |-> <<images[n]>>])]]
    /\ UNCHANGED <<images, mesh_batch, lastCall, stored>>
    /\ UNCHANGED notFb

\* The record of a commands() call.
Call(batch, n, fail, pre, hit, built, used, result) ==
    [batch |-> batch, slot |-> n, image |-> images[n], fail |-> fail,
     pre |-> pre, preStored |-> stored[n], hit |-> hit, built |-> built,
     used |-> used, result |-> result]
\* The image and the framebuffer the call ran with, if it got a framebuffer.
Remember(n, used) ==
    IF used = NoFramebuffer THEN stored
    ELSE [stored EXCEPT ![n] = ImageFramebuffer(images[n], used)]

\* A miss that stores the slot before the framebuffer is known to exist.
SpriteMissStoresFirst(image_num, fail) ==
    LET image == images[image_num]
        framebuffer == [id |-> nobj + 1, atts |-> <<image>>]
        entry == ImageFramebuffer(image, framebuffer)
        target_desc == [id |-> nobj + 1 + 1, of |-> <<FbDim(framebuffer)>>]
        withSlot == [sprite_batch EXCEPT !.framebuffers[image_num] = entry]
    IN CASE fail = "framebuffer" ->
                [batch |-> withSlot, nobj |-> nobj,
                 built |-> NoFramebuffer, used |-> NoFramebuffer,
                 result |-> "err"]
         [] fail = "target_desc" ->
                [batch |-> withSlot, nobj |-> nobj + 1,
                 built |-> framebuffer, used |-> framebuffer,
                 result |-> "err"]
         [] OTHER ->
                [batch |-> [withSlot EXCEPT !.target_desc = target_desc],
                 nobj |-> nobj + 1 + 1,
                 built |-> framebuffer, used |-> framebuffer,
                 result |-> IF fail = "commands" THEN "err" ELSE "ok"]
\* sprite/mod.rs:118-139  the miss path of SpriteBatch::commands: build the
\* framebuffer (?), store the slot, make the target descriptor set (?), store
\* it.  Each ? returns the error at once.
SpriteMiss(image_num, fail) ==
    LET image == images[image_num]
        framebuffer == [id |-> nobj + 1, atts |-> <<image>>]
        entry == ImageFramebuffer(image, framebuffer)
        target_desc == [id |-> nobj + 1 + 1, of |-> <<FbDim(framebuffer)>>]
        withSlot == [sprite_batch EXCEPT !.framebuffers[image_num] = entry]
    IN CASE fail = "framebuffer" ->
                [batch |-> sprite_batch, nobj |-> nobj,
                 built |-> NoFramebuffer, used |-> NoFramebuffer,
                 result |-> "err"]
         [] fail = "target_desc" ->
                [batch |-> withSlot, nobj |-> nobj + 1,
                 built |-> framebuffer, used |-> framebuffer,
                 result |-> "err"]
         [] OTHER ->
                [batch |-> [withSlot EXCEPT !.target_desc = target_desc],
                 nobj |-> nobj + 1 + 1,
                 built |-> framebuffer, used |-> framebuffer,
                 result |-> IF fail = "commands" THEN "err" ELSE "ok"]

\* The points at which SpriteBatch::commands can run out of memory.
SpriteFails == {"none", "framebuffer", "target_desc", "commands"}

\* sprite/mod.rs:101-166  SpriteBatch::commands(window, target, image_num)
SpriteBatchCommands(image_num, fail) ==
    /\ sprite_batch.exists
    /\ nobj + 1 + 1 <= MaxObjs
    /\ LET cached == CacheLookup(sprite_batch.framebuffers[image_num],
                                 images[image_num])
           hit == cached # NoFramebuffer
           out == IF hit
                  THEN [batch |-> sprite_batch, nobj |-> nobj,
                        built |-> NoFramebuffer, used |-> cached,
                        result |-> IF fail = "commands" THEN "err" ELSE "ok"]
                  ELSE SpriteMiss(image_num, fail)
       IN /\ hit => fail \in {"none", "commands"}
          /\ sprite_batch' = out.batch
          /\ nobj' = out.nobj
          /\ lastCall' = Call("sprite", image_num, fail, sprite_batch, hit,
                              out.built, out.used, out.result)
          /\ stored' = Remember(image_num, out.used)
    /\ UNCHANGED <<images, mesh_batch>>
    /\ UNCHANGED notFb

\* mesh_batch.rs:29-81  MeshBatch::new: the three transient attachments, one
\* framebuffer per image of the target, the composite descriptor set.
MeshBatchNew(fail) ==
    /\ ~sprite_batch.exists /\ ~mesh_batch.exists
    /\ nobj + MaxSlots + 4 <= MaxObjs
    /\ IF fail
       THEN UNCHANGED <<nobj, mesh_batch>>
       ELSE LET dimensions == images[1].dim
                color == [id |-> nobj + 1, dim |-> dimensions]
                normal == [id |-> nobj + 2, dim |-> dimensions]
                depth == [id |-> nobj + 3, dim |-> dimensions]
            IN /\ nobj' = nobj + MaxSlots + 4
               /\ mesh_batch' =
                    [exists |-> TRUE,
                     image_color |-> color,
                     image_normal |-> normal,
                     image_depth |-> depth,
                     framebuffers |->
                        [n \in Slots |->
                            ImageFramebuffer(images[n],
                                [id |-> nobj + 3 + n,
                                 atts |-> <<color, normal, depth, images[n]>>])],
                     desc_target |-> [id |-> nobj + MaxSlots + 4,
                                      of |-> <<color, normal>>]]
    /\ UNCHANGED <<images, sprite_batch, lastCall, stored>>
    /\ UNCHANGED notFb

\* mesh_batch.rs:107-135  the miss path of MeshBatch::commands: each of
\* image_color, image_normal and image_depth is assigned as soon as it is
\* made (?), then desc_target, then the framebuffer is built (?) and stored.
MeshMiss(image_num, fail) ==
    LET image == images[image_num]
        dimensions == image.dim
        color == [id |-> nobj + 1, dim |-> dimensions]
        normal == [id |-> nobj + 2, dim |-> dimensions]
        depth == [id |-> nobj + 3, dim |-> dimensions]
        desc == [id |-> nobj + 4, of |-> <<color, normal>>]
        framebuffer == [id |-> nobj + 5,
                        atts |-> <<color, normal, depth, image>>]
        b1 == [mesh_batch EXCEPT !.image_color = color]
        b2 == [b1 EXCEPT !.image_normal = normal]
        b3 == [b2 EXCEPT !.image_depth = depth, !.desc_target = desc]
        b4 == [b3 EXCEPT !.framebuffers[image_num] =
                            ImageFramebuffer(image, framebuffer)]
        err(b, n) == [batch |-> b, nobj |-> nobj + n,
                      built |-> NoFramebuffer, used |-> NoFramebuffer,
                      result |-> "err"]
    IN CASE fail = "color" -> err(mesh_batch, 0)
         [] fail = "normal" -> err(b1, 1)
         [] fail = "depth" -> err(b2, 2)
         [] fail = "framebuffer" -> err(b3, 4)
         [] OTHER ->
                [batch |-> b4, nobj |-> nobj + 5,
                 built |-> framebuffer, used |-> framebuffer,
                 result |-> IF fail = "commands" THEN "err" ELSE "ok"]

\* The points at which MeshBatch::commands can run out of memory.
MeshFails == {"none", "color", "normal", "depth", "framebuffer", "commands"}

\* mesh_batch.rs:87-200  MeshBatch::commands(window, target, image_num, camera)
MeshBatchCommands(image_num, fail) ==
    /\ mesh_batch.exists
    /\ LET cached == CacheLookup(mesh_batch.framebuffers[image_num],
                                 images[image_num])
           hit == cached # NoFramebuffer
           out == IF hit
                  THEN [batch |-> mesh_batch, nobj |-> nobj,
                        built |-> NoFramebuffer, used |-> cached,
                        result |-> IF fail = "commands" THEN "err" ELSE "ok"]
                  ELSE MeshMiss(image_num, fail)
       IN /\ hit => fail \in {"none", "commands"}
          /\ ~hit => nobj + 5 <= MaxObjs
          /\ mesh_batch' = out.batch
          /\ nobj' = out.nobj
          /\ lastCall' = Call("mesh", image_num, fail, mesh_batch, hit,
                              out.built, out.used, out.result)
          /\ stored' = Remember(image_num, out.used)
    /\ UNCHANGED <<images, sprite_batch>>
    /\ UNCHANGED notFb

FbNext ==
    \/ \E d \in Dims : RecreateImages(d)
    \/ \E fail \in BOOLEAN : SpriteBatchNew(fail)
    \/ \E fail \in BOOLEAN : MeshBatchNew(fail)
    \/ \E n \in Slots, fail \in SpriteFails : SpriteBatchCommands(n, fail)
    \/ \E n \in Slots, fail \in MeshFails : MeshBatchCommands(n, fail)

\* The pools stay as they are constructed on a one-core machine.
PoolIdle == Init /\ cores = 1

FbSpec == PoolIdle /\ [][FbNext]_vars

\* ---------------------------------------------------------------- C11
\* C11: in SpriteBatch::commands and MeshBatch::commands the cached
\* framebuffer of slot image_num is used if and only if the slot's weak image
\* upgrades and is the very image target.images()[image_num]; otherwise a
\* new framebuffer is built and, once built, stored in the slot with a weak
\* reference to the current image; and a call that finds the image the
\* previous call on the slot got its framebuffer for uses that same
\* framebuffer object and builds nothing.
C11_SlotBefore == lastCall.pre.framebuffers[lastCall.slot]
C11_SlotNow ==
    IF lastCall.batch = "sprite"
    THEN sprite_batch.framebuffers[lastCall.slot]
    ELSE mesh_batch.framebuffers[lastCall.slot]
C11_CacheByIdentity ==
    lastCall.batch # "none" =>
        /\ lastCall.hit <=>
                /\ C11_SlotBefore.image.id # 0
                /\ C11_SlotBefore.image.id = lastCall.image.id
        /\ lastCall.hit =>
                /\ lastCall.used = C11_SlotBefore.framebuffer
                /\ lastCall.built = NoFramebuffer
                /\ C11_SlotNow = C11_SlotBefore
        /\ (~lastCall.hit /\ lastCall.built # NoFramebuffer) =>
                /\ lastCall.built.id \notin
                        {lastCall.pre.framebuffers[n].framebuffer.id :
                            n \in Slots}
                /\ lastCall.used = lastCall.built
                /\ C11_SlotNow = ImageFramebuffer(lastCall.image, lastCall.built)
        /\ (~lastCall.hit /\ lastCall.built = NoFramebuffer) =>
                /\ lastCall.result = "err"
                /\ C11_SlotNow = C11_SlotBefore
        /\ (lastCall.preStored.image.id = lastCall.image.id) =>
                /\ lastCall.hit
                /\ lastCall.used = lastCall.preStored.framebuffer
\* A call on a slot whose image was replaced by one of the same size built a
\* framebuffer, and the next call on the slot with that image reused it.
C11_Witness ==
    /\ lastCall.batch # "none"
    /\ lastCall.hit
    /\ lastCall.preStored.image.id = lastCall.image.id
    /\ lastCall.used.id > MaxSlots + MaxSlots + 4
    /\ lastCall.image.dim = 1

\* ---------------------------------------------------------------- C12
\* C12: when the framebuffer construction fails on a cache miss in
\* SpriteBatch::commands, the call returns the error, builds no framebuffer
\* in that call, and leaves the batch as it was: the slot's entry (weak image
\* and framebuffer) and target_desc are those of before the call.
C12_FailedBuildKeepsState ==
    (lastCall.batch = "sprite" /\ ~lastCall.hit
        /\ lastCall.fail = "framebuffer") =>
            /\ lastCall.result = "err"
            /\ lastCall.built = NoFramebuffer
            /\ lastCall.used = NoFramebuffer
            /\ sprite_batch.framebuffers[lastCall.slot] =
                    lastCall.pre.framebuffers[lastCall.slot]
            /\ sprite_batch.target_desc = lastCall.pre.target_desc
            /\ sprite_batch = lastCall.pre
\* The framebuffer construction failed for an image that replaced the one the
\* slot was built for.
C12_Witness ==
    /\ lastCall.batch = "sprite"
    /\ ~lastCall.hit
    /\ lastCall.fail = "framebuffer"
    /\ lastCall.result = "err"
    /\ lastCall.pre.framebuffers[lastCall.slot].image.id # 0
    /\ lastCall.pre.framebuffers[lastCall.slot].image.id # lastCall.image.id

\* ---------------------------------------------------------------- C26
\* C26: a cache miss in MeshBatch::commands of mesh_batch.rs replaces
\* image_color, image_normal, image_depth, desc_target and the slot's
\* framebuffer together or not at all: when an allocation or the framebuffer
\* construction of the miss path fails, the call returns the error and the
\* batch is as it was before the call.
C26_MissAllOrNothing ==
    (lastCall.batch = "mesh" /\ ~lastCall.hit) =>
        IF lastCall.fail \in {"color", "normal", "depth", "framebuffer"}
        THEN /\ lastCall.result = "err"
             /\ mesh_batch = lastCall.pre
        ELSE /\ mesh_batch.image_color # lastCall.pre.image_color
             /\ mesh_batch.image_normal # lastCall.pre.image_normal
             /\ mesh_batch.image_depth # lastCall.pre.image_depth
             /\ mesh_batch.desc_target # lastCall.pre.desc_target
             /\ mesh_batch.framebuffers[lastCall.slot] =
                    ImageFramebuffer(lastCall.image, lastCall.built)

\* ---------------------------------------------------------------- C28
\* C28: the framebuffer a MeshBatch::commands call of mesh_batch.rs uses has
\* as its color, normal and depth attachments the batch's current
\* image_color, image_normal and image_depth, and these are the images bound
\* in the desc_target of the composite draw of the same call.
C28_AttachmentsAreCurrent ==
    (lastCall.batch = "mesh" /\ lastCall.used # NoFramebuffer) =>
        /\ lastCall.used.atts[1] = mesh_batch.image_color
        /\ lastCall.used.atts[2] = mesh_batch.image_normal
        /\ lastCall.used.atts[3] = mesh_batch.image_depth
        /\ mesh_batch.desc_target.of = <<lastCall.used.atts[1], lastCall.used.atts[2]>>

\* ======================================================================
\* The G-buffers of the MeshBatch of batch/mesh/mod.rs
\* ======================================================================
\* GBuffers sets made in one behaviour.
MaxSets == 3

notGb == <<poolVars, sprite_batch, mesh_batch, lastCall, stored, textVars,
          texVars, meshVars,
    winVars,
    slotVars,
    fontVars,
    lockVars>>

\* render_pass.shaders.black_pixel, the one placeholder image.
BlackPixel == [id |-> 1, dim |-> 1]
\* The k-th object of the set made by the gen-th call of make_gbuffers.
GbId(gen, k) == gen * 10 + k
\* history[i], history_descs[i], target_descs[i] for a bool-valued index.
At(pair, index) == IF index THEN pair[2] ELSE pair[1]

\* mesh/mod.rs:229-345  make_gbuffers: every member is made anew;
\* history_descs[0] samples history[1] and history_descs[1] samples
\* history[0]; target_descs[i] reads history[i].
MakeGbuffers(gen, dimensions) ==
    LET img(k) == [id |-> GbId(gen, k), dim |-> dimensions]
        color == img(1)
        normal == img(2)
        depth == img(3)
        history == <<img(4), img(5)>>
        size == img(6)
    IN [exists |-> TRUE, size |-> size, color |-> color, normal |-> normal,
        depth |-> depth, history |-> history,
        history_descs |->
            <<[id |-> GbId(gen, 7),
               of |-> <<size, history[2], color, normal, depth>>],
              [id |-> GbId(gen, 8),
               of |-> <<size, history[1], color, normal, depth>>]>>,
        target_descs |->
            <<[id |-> GbId(gen, 9), of |-> <<history[1]>>],
              [id |-> GbId(gen, 10), of |-> <<history[2]>>]>>,
        history_index |-> FALSE, history_initialized |-> FALSE]

\* The allocations of make_gbuffers, each of which can fail.
GbufferFails == {"color", "normal", "depth", "history0", "history1", "size"}

\* A rebuild that keeps the size buffer of the set it replaces.
RebuildKeepingSize(old, gen, dimensions, fail) ==
    IF fail \in GbufferFails
    THEN [ok |-> FALSE, gbuffers |-> old]
    ELSE [ok |-> TRUE,
          gbuffers |-> [MakeGbuffers(gen, dimensions) EXCEPT !.size = old.size]]
\* A rebuild that assigns each attachment as soon as it is made.
RebuildInPlace(old, gen, dimensions, fail) ==
    IF fail \in GbufferFails
    THEN [ok |-> FALSE,
          gbuffers |->
            IF fail = "color" THEN old
            ELSE [old EXCEPT !.color = MakeGbuffers(gen, dimensions).color]]
    ELSE [ok |-> TRUE, gbuffers |-> MakeGbuffers(gen, dimensions)]
\* mesh/mod.rs:78-79  let (gbuffers, f) = Self::make_gbuffers(..)?;
\*                    self.gbuffers = gbuffers;
Rebuild(old, gen, dimensions, fail) ==
    IF fail \in GbufferFails
    THEN [ok |-> FALSE, gbuffers |-> old]
    ELSE [ok |-> TRUE, gbuffers |-> MakeGbuffers(gen, dimensions)]

\* The history-read binding taken from the set whatever its age.
HistoryDescCached(g, index) == At(g.history_descs, index)
\* mesh/mod.rs:152-171  the history-read binding of the frame: the set's
\* history_descs[history_index] once history_initialized, else a descriptor
\* set made for this frame that samples black_pixel.
HistoryDesc(g, index) ==
    IF g.history_initialized
    THEN At(g.history_descs, index)
    ELSE [id |-> 0, of |-> <<g.size, BlackPixel, g.color, g.normal, g.depth>>]

\* mesh/mod.rs:39-58  MeshBatch::new: the first set, by make_gbuffers.
GbMeshBatchNew(fail) ==
    /\ ~gbuffers.exists
    /\ nsets < MaxSets
    /\ LET made == Rebuild(gbuffers, nsets + 1, images[1].dim, fail)
       IN /\ gbuffers' = made.gbuffers
          /\ nsets' = IF made.ok THEN nsets + 1 ELSE nsets
    /\ UNCHANGED <<lastFrame, frames, nobj, images>>
    /\ UNCHANGED notGb

\* mesh/mod.rs:66-209  MeshBatch::commands(window, target, image_num, camera):
\* rebuild the set if the image's size is not the set's (76-83); take the
\* history index and flip it (100-101); then record the frame: framebuffer
\* with history[history_index] (115), history-read binding (152-171),
\* composite binding target_descs[history_index] (199).  Every ? after the
\* flip returns the error with the flip done.
GbMeshBatchCommands(image_num, fail) ==
    /\ gbuffers.exists
    /\ LET image == images[image_num]
           differ == image.dim # gbuffers.color.dim
           rb == IF differ
                 THEN Rebuild(gbuffers, nsets + 1, images[1].dim, fail)
                 ELSE [ok |-> TRUE, gbuffers |-> gbuffers]
           history_index == rb.gbuffers.history_index
           flipped == [rb.gbuffers EXCEPT !.history_index = ~@]
           prev == IF differ THEN NoFrames ELSE frames
           frame == [result |-> "err", fail |-> fail, image |-> image,
                     pre |-> gbuffers, prev |-> prev, rebuilt |-> FALSE,
                     index |-> history_index, written |-> NoImage,
                     history_desc |-> NoDesc, target_desc |-> NoDesc]
       IN /\ differ => nsets < MaxSets
          /\ ~differ => fail \notin GbufferFails
          /\ IF ~rb.ok
             THEN /\ gbuffers' = rb.gbuffers
                  /\ lastFrame' = frame
                  /\ UNCHANGED <<frames, nsets>>
             ELSE /\ gbuffers' = flipped
                  /\ nsets' = IF differ THEN nsets + 1 ELSE nsets
                  /\ IF fail = "commands"
                     THEN /\ lastFrame' = [frame EXCEPT !.rebuilt = differ]
                          /\ frames' = prev
                     ELSE /\ lastFrame' =
                                [frame EXCEPT
                                    !.result = "ok",
                                    !.rebuilt = differ,
                                    !.written = At(flipped.history, history_index),
                                    !.history_desc =
                                        HistoryDesc(flipped, history_index),
                                    !.target_desc =
                                        At(flipped.target_descs, history_index)]
                          /\ frames' = [recorded |-> TRUE,
                                        index |-> history_index]
    /\ UNCHANGED <<nobj, images>>
    /\ UNCHANGED notGb

GbNext ==
    \/ \E d \in Dims : RecreateImages(d)
    \/ \E fail \in GbufferFails \cup {"none"} : GbMeshBatchNew(fail)
    \/ \E n \in Slots, fail \in GbufferFails \cup {"none", "commands"} :
            GbMeshBatchCommands(n, fail)

GbSpec == PoolIdle /\ [][GbNext]_vars

\* The objects a GBuffers set is made of.
Members(g) ==
    {g.color.id, g.normal.id, g.depth.id, g.size.id}
        \cup {g.history[i].id : i \in 1..2}
        \cup {g.history_descs[i].id : i \in 1..2}
        \cup {g.target_descs[i].id : i \in 1..2}
\* The image sampled by a history-read binding.
Sampled(desc) == desc.of[2]

\* ---------------------------------------------------------------- C13
\* C13: whenever the target image's dimensions differ from the G-buffer
\* set's and MeshBatch::commands succeeds, every member of the set in use
\* after the call (color, normal, depth, history[0], history[1], size, both
\* history descriptor sets, both target descriptor sets) is newly created:
\* none is a member of the set in use before the call.
C13_RebuildReplacesAll ==
    (lastFrame.result = "ok"
        /\ lastFrame.image.dim # lastFrame.pre.color.dim) =>
            /\ lastFrame.rebuilt
            /\ Members(gbuffers) \cap Members(lastFrame.pre) = {}
            /\ Cardinality(Members(gbuffers)) = Cardinality(Members(lastFrame.pre))
            /\ gbuffers.color.dim = lastFrame.image.dim
C13_Witness ==
    /\ lastFrame.result = "ok"
    /\ lastFrame.image.dim # lastFrame.pre.color.dim
    /\ lastFrame.pre.history_index

\* ---------------------------------------------------------------- C14
\* C14: if an allocation fails while MeshBatch::commands rebuilds the
\* G-buffer set, the call returns the error and self.gbuffers is entirely the
\* previous set: no attachment, descriptor set, history_index or
\* history_initialized of it has been replaced.
C14_FailedRebuildKeepsSet ==
    (lastFrame.fail \in GbufferFails) =>
        /\ lastFrame.result = "err"
        /\ ~lastFrame.rebuilt
        /\ gbuffers = lastFrame.pre
\* The rebuild failed after color had been allocated, on a set that had
\* already recorded a frame.
C14_Witness ==
    /\ lastFrame.fail = "depth"
    /\ lastFrame.result = "err"
    /\ lastFrame.image.dim # lastFrame.pre.color.dim
    /\ frames.recorded
    /\ gbuffers.history_index

\* ---------------------------------------------------------------- C15
\* C15: after the first frame on a G-buffer set has been recorded,
\* history_initialized is true, and in every later frame on that set the
\* history-read binding is history_descs[i], which samples the history
\* attachment of the other index than the one written in that frame, not the
\* placeholder.
C15_HistoryInitialized ==
    /\ frames.recorded => gbuffers.history_initialized
    /\ (lastFrame.result = "ok" /\ lastFrame.prev.recorded) =>
            /\ lastFrame.history_desc =
                    At(gbuffers.history_descs, lastFrame.index)
            /\ Sampled(lastFrame.history_desc) =
                    At(gbuffers.history, ~lastFrame.index)
            /\ Sampled(lastFrame.history_desc) # BlackPixel

\* ---------------------------------------------------------------- C16
\* C16: on the first frame after a G-buffer set is created or rebuilt
\* (history_initialized false), the history-read binding used by
\* MeshBatch::commands samples the placeholder image black_pixel and neither
\* of the two history attachments.
C16_FirstFramePlaceholder ==
    (lastFrame.result = "ok" /\ ~lastFrame.prev.recorded) =>
        /\ ~gbuffers.history_initialized
        /\ Sampled(lastFrame.history_desc) = BlackPixel
        /\ Sampled(lastFrame.history_desc).id \notin
                {gbuffers.history[i].id : i \in 1..2}
\* The first frame on a set made by a rebuild.
C16_Witness ==
    /\ lastFrame.result = "ok"
    /\ ~lastFrame.prev.recorded
    /\ lastFrame.rebuilt
    /\ lastFrame.pre.history_index

\* ---------------------------------------------------------------- C17
\* C17: in every frame recorded by MeshBatch::commands the history attachment
\* attached for writing, history[i], is not the image sampled by the frame's
\* history-read binding, the composite binding target_descs[i] reads the
\* attachment written in that frame, and i alternates between consecutive
\* frames that have no rebuild between them.
C17_PingPong ==
    lastFrame.result = "ok" =>
        /\ lastFrame.written = At(gbuffers.history, lastFrame.index)
        /\ lastFrame.written # Sampled(lastFrame.history_desc)
        /\ lastFrame.target_desc = At(gbuffers.target_descs, lastFrame.index)
        /\ lastFrame.target_desc.of = <<lastFrame.written>>
        /\ lastFrame.prev.recorded => lastFrame.index # lastFrame.prev.index

\* ======================================================================
\* Font and TextSprite (batch/sprite/font.rs)
\* ======================================================================
notText == <<poolVars, fbVars, gbVars, texVars, meshVars,
    winVars,
    slotVars,
    fontVars,
    lockVars>>

\* font.rs:167, 175  wait(Some(Default::default())): a timeout of zero.
WaitTimeout == 0

\* FenceSignalFuture::wait(timeout) on a fence in the given state: Ok once
\* signaled, otherwise Timeout at once for a zero timeout and a blocking
\* wait for any other; a lost device or a wait that runs out of memory is an
\* error other than Timeout.
FenceWait(fence, timeout) ==
    CASE fence = "signaled" -> "ok"
      [] fence \in {"lost", "oom"} -> "error"
      [] timeout = 0 -> "timeout"
      [] OTHER -> "blocks"

\* An insertion that keeps an upload fence for every glyph, bitmap or not.
GlyphInsertAlwaysFence(f, g, bitmap) ==
    [glyphs |-> [f.glyphs EXCEPT ![g] = IF bitmap THEN "some" ELSE "none"],
     futures |-> f.futures \cup {g}]
\* font.rs:43-48  what Font::load stores once load_impl returned Ok: the glyph
\* and the fence of its upload, or None for a glyph without a bitmap.
GlyphInsert(f, g, bitmap) ==
    IF bitmap
    THEN [glyphs |-> [f.glyphs EXCEPT ![g] = "some"],
          futures |-> f.futures \cup {g}]
    ELSE [f EXCEPT !.glyphs[g] = "none"]

\* font.rs:39-52, 102-136  Font::load of a character whose glyph is g; bitmap
\* tells whether the glyph has a pixel bounding box.
FontLoad(g, bitmap, fail) ==
    /\ ~text_sprite.exists
    /\ font.glyphs[g] = "absent"
    /\ font' = IF fail THEN font ELSE GlyphInsert(font, g, bitmap)
    /\ UNCHANGED <<text_sprite, fences, lastDraw>>
    /\ UNCHANGED notText

\* font.rs:62-100  Font::make_sprite(text): per glyph of the text a position
\* buffer with its upload fence; for a glyph with a bitmap its descriptor set
\* and, if the font still holds it, the fence of the glyph's upload.
FontMakeSprite(text) ==
    /\ ~text_sprite.exists
    /\ \A i \in DOMAIN text : font.glyphs[text[i]] # "absent"
    /\ LET ids == {text[i] : i \in DOMAIN text}
           withBitmap == {g \in ids : font.glyphs[g] = "some"}
       IN text_sprite' =
            [exists |-> TRUE,
             static_descs |-> withBitmap,
             positions |-> [i \in DOMAIN text |->
                                [id |-> text[i], future |-> TRUE]],
             futures |-> withBitmap \cap font.futures]
    /\ UNCHANGED <<font, fences, lastDraw>>
    /\ UNCHANGED notText

\* The GPU finishes the upload behind a fence.
FenceSignal(which, k) ==
    /\ ~fences[which][k] /\ ~fences.lost
    /\ which = "pos" => text_sprite.exists /\ k \in DOMAIN text_sprite.positions
    /\ which = "glyph" => k \in font.futures
    /\ fences' = [fences EXCEPT ![which][k] = TRUE]
    /\ UNCHANGED <<font, text_sprite, lastDraw>>
    /\ UNCHANGED notText

\* The device is lost: the fences not yet signaled never will be.
DeviceLost ==
    /\ text_sprite.exists
    /\ ~fences.lost
    /\ fences' = [fences EXCEPT !.lost = TRUE]
    /\ UNCHANGED <<font, text_sprite, lastDraw>>
    /\ UNCHANGED notText

\* What a wait on the fence of upload k finds.
Fence(which, k) ==
    IF fences[which][k] THEN "signaled"
    ELSE IF fences.lost THEN "lost" ELSE "unsignaled"

\* font.rs:165-202  the body of the loop of TextSprite::make_commands for the
\* i-th entry (id, pos, future) of positions, on the loop state st:
\*   166-172  take the position fence and wait on it; Timeout puts it back
\*            and goes on with the entry; another error panics;
\*   174-180  wait on the glyph's fence if futures holds one: Ok removes it,
\*            Timeout skips the entry (continue), another error panics;
\*   182-201  draw the entry if static_descs has its glyph.
DrawEntry(st, i) ==
    LET entry == st.positions[i]
        posWait == IF entry.future
                   THEN FenceWait(Fence("pos", i), WaitTimeout) ELSE "none"
        glyphWait == IF posWait # "error" /\ entry.id \in st.futures
                     THEN FenceWait(Fence("glyph", entry.id), WaitTimeout)
                     ELSE "none"
        waits == {posWait, glyphWait}
        st1 == [st EXCEPT
                    !.positions[i].future = (posWait = "timeout"),
                    !.futures = IF glyphWait \in {"ok", "blocks"}
                                THEN @ \ {entry.id} ELSE @,
                    !.timeouts = IF posWait = "timeout"
                                 THEN @ \cup {i} ELSE @,
                    !.blocked = @ \/ "blocks" \in waits]
    IN CASE "error" \in waits -> [st1 EXCEPT !.panicked = TRUE]
         [] glyphWait = "timeout" -> st1
         [] entry.id \in text_sprite.static_descs ->
                [st1 EXCEPT !.draws = @ \cup {i}]
         [] OTHER -> st1

\* for (id, pos, future) in &mut self.positions { .. }, from entry i on; a
\* panic ends the loop.
RECURSIVE DrawLoop(_, _)
DrawLoop(st, i) ==
    IF i > Len(st.positions) \/ st.panicked THEN st
    ELSE DrawLoop(DrawEntry(st, i), i + 1)

\* font.rs:148-204  TextSprite::make_commands: the secondary command buffer
\* is begun (?), the loop records the draws, build() (?) returns them.
TextSpriteMakeCommands(fail) ==
    /\ text_sprite.exists
    /\ LET st == DrawLoop([positions |-> text_sprite.positions,
                           futures |-> text_sprite.futures,
                           draws |-> {}, timeouts |-> {},
                           blocked |-> FALSE, panicked |-> FALSE], 1)
       IN IF fail = "begin"
          THEN /\ lastDraw' = [NoDraw EXCEPT !.result = "err"]
               /\ UNCHANGED text_sprite
          ELSE /\ text_sprite' = [text_sprite EXCEPT
                                    !.positions = st.positions,
                                    !.futures = st.futures]
               /\ lastDraw' =
                    [result |-> IF st.panicked THEN "panic"
                                ELSE IF fail = "build" THEN "err" ELSE "ok",
                     draws |-> IF st.panicked \/ fail = "build"
                               THEN {} ELSE st.draws,
                     timeouts |-> st.timeouts,
                     blocked |-> st.blocked]
    /\ UNCHANGED <<font, fences>>
    /\ UNCHANGED notText

\* The texts a sprite is made for: up to MaxEntries glyphs.
Texts == UNION {[1..n -> Glyphs] : n \in 1..MaxEntries}

TextNext ==
    \/ \E g \in Glyphs, bitmap \in BOOLEAN, fail \in BOOLEAN :
            FontLoad(g, bitmap, fail)
    \/ \E text \in Texts : FontMakeSprite(text)
    \/ \E k \in Entries : FenceSignal("pos", k)
    \/ \E k \in Glyphs : FenceSignal("glyph", k)
    \/ DeviceLost
    \/ \E fail \in {"none", "begin", "build"} : TextSpriteMakeCommands(fail)

TextSpec == PoolIdle /\ [][TextNext]_vars

\* ---------------------------------------------------------------- C18
\* C18: TextSprite::make_commands never blocks on a fence, and it records a
\* draw for an entry in a frame only when the entry's position-buffer upload
\* and its glyph texture upload have both been observed complete: an entry
\* with an upload still pending is not drawn in that frame.
C18_DrawOnlyUploaded ==
    lastDraw.result # "none" =>
        /\ ~lastDraw.blocked
        /\ \A i \in lastDraw.draws :
                /\ ~text_sprite.positions[i].future
                /\ i \notin lastDraw.timeouts
                /\ text_sprite.positions[i].id \notin text_sprite.futures

\* ======================================================================
\* TextureFuture (texture/immutable.rs)
\* ======================================================================
notTex == <<poolVars, fbVars, gbVars, textVars, meshVars,
    winVars,
    slotVars,
    fontVars,
    lockVars>>

\* A poll that moves the SpriteGpuData out of the future when it is Ready.
TexOnSignaledTake(t) ==
    [t |-> [t EXCEPT !.state = "LoadingCpu", !.image = 0],
     res |-> R("ready", t.image)]
\* immutable.rs:90  Ok(()) => Ok(Async::Ready(ImmutableTexture { image:
\* data.image.clone() })): the state stays LoadingGpu(data).
TexOnSignaled(t) == [t |-> t, res |-> R("ready", t.image)]

\* immutable.rs:88-99  the third match of TextureFuture::poll.
TexPollGpu(t, fence) ==
    IF t.state # "LoadingGpu" THEN [t |-> t, res |-> Panicked]
    ELSE LET w == FenceWait(fence, WaitTimeout) IN
         CASE w = "ok" -> TexOnSignaled(t)
           [] w = "timeout" -> [t |-> t, res |-> Pending]
           [] w = "error" /\ fence = "lost" ->
                [t |-> t, res |-> R("err", "DeviceLost")]
           [] OTHER -> [t |-> t, res |-> Panicked]

\* immutable.rs:74-86  the second match: in LoadingCpu poll the CpuFuture; on
\* Ready go to LoadingGpu(data) and on to the third match.
TexPollCpu(t, fence) ==
    IF t.state # "LoadingCpu" THEN TexPollGpu(t, fence)
    ELSE LET p == CpuFuturePoll(t.cpu)
             t1 == [t EXCEPT !.cpu = p.ch]
         IN CASE p.res.tag = "ready" ->
                    TexPollGpu([t1 EXCEPT !.state = "LoadingGpu",
                                          !.image = p.res.val], fence)
              [] OTHER -> [t |-> t1, res |-> p.res]

\* A poll that returns Pending after leaving LoadingDisk instead of going on
\* to the next match.
TexPollOneStage(t, fence) ==
    IF t.state # "LoadingDisk" THEN TexPollCpu(t, fence)
    ELSE LET p == CpuFuturePoll(t.disk)
             t1 == [t EXCEPT !.disk = p.ch]
         IN CASE p.res.tag = "ready" ->
                    [t |-> [t1 EXCEPT !.state = "LoadingCpu"], res |-> Pending]
              [] p.res.tag = "err" ->
                    [t |-> t1, res |-> R("err", "IoError")]
              [] OTHER -> [t |-> t1, res |-> p.res]

\* immutable.rs:60-72  TextureFuture::poll, from its first match: in
\* LoadingDisk poll the CpuFuture of the disk stage; on Ready go to
\* LoadingCpu(subfuture) and on to the second match; `?` returns an error
\* converted by From<io::Error>.
TexPoll(t, fence) ==
    IF t.state # "LoadingDisk" THEN TexPollCpu(t, fence)
    ELSE LET p == CpuFuturePoll(t.disk)
             t1 == [t EXCEPT !.disk = p.ch]
         IN CASE p.res.tag = "ready" ->
                    TexPollCpu([t1 EXCEPT !.state = "LoadingCpu"], fence)
              [] p.res.tag = "err" ->
                    [t |-> t1, res |-> R("err", "IoError")]
              [] OTHER -> [t |-> t1, res |-> p.res]

\* immutable.rs:20-46  ImmutableTexture::from_file_with_format
TextureFromFile ==
    /\ tex.state = "none"
    /\ tex' = [NoTexture EXCEPT !.state = "LoadingDisk"]
    /\ UNCHANGED <<texFence, texLog>>
    /\ UNCHANGED notTex

\* immutable.rs:24-44  the closure given to spawn_fs runs on the disk pool:
\* it reads the file and, if that went well, spawns the decoding closure.
TexDiskClosure(out) ==
    /\ tex.state # "none" /\ ~tex.disk.complete
    /\ tex' = CASE out = "ok" ->
                    [tex EXCEPT !.disk = ChanSend(@, OkSubfuture),
                                !.spawned = TRUE]
                [] out = "err" -> [tex EXCEPT !.disk = ChanSend(@, R("err", 1))]
                [] OTHER -> [tex EXCEPT !.disk = ChanClose(@)]
    /\ UNCHANGED <<texFence, texLog>>
    /\ UNCHANGED notTex

\* immutable.rs:28-43  the decoding closure runs on the CPU pool: it decodes
\* the bytes, creates the image and flushes its upload behind a fence.
TexCpuClosure(out, img) ==
    /\ tex.spawned /\ ~tex.cpu.complete
    /\ tex' = CASE out = "ok" -> [tex EXCEPT !.cpu = ChanSend(@, R("ok", img))]
                [] out = "err" ->
                    [tex EXCEPT !.cpu = ChanSend(@, R("err", "ImageError"))]
                [] OTHER -> [tex EXCEPT !.cpu = ChanClose(@)]
    /\ UNCHANGED <<texFence, texLog>>
    /\ UNCHANGED notTex

\* The GPU finishes the upload, or the device is lost, or waiting on the
\* fence runs out of memory.
TexFenceDone(to) ==
    /\ tex.cpu.complete
    /\ tex.cpu.data.tag = "ok" \/ tex.image # 0
    /\ texFence = "unsignaled"
    /\ texFence' = to
    /\ UNCHANGED <<tex, texLog>>
    /\ UNCHANGED notTex

\* A poll of the future by its task or by whoever holds it; a poll that
\* panicked was the last.
TexturePoll ==
    /\ tex.state # "none"
    /\ texLog.last # Panicked
    /\ texLog.polls < MaxPolls
    /\ LET p == TexPoll(tex, texFence)
           ready == IF p.res.tag = "ready" THEN 1 ELSE 0
       IN
        /\ tex' = p.t
        /\ texLog' =
            IF p.res.tag = "ready" /\ texLog.first = None
            THEN [last |-> p.res, first |-> p.res, snap |-> p.t,
                  polls |-> texLog.polls + 1, ready |-> 1]
            ELSE [texLog EXCEPT !.last = p.res, !.polls = @ + 1,
                                !.ready = @ + ready]
    /\ UNCHANGED texFence
    /\ UNCHANGED notTex

TexNext ==
    \/ TextureFromFile
    \/ \E out \in {"ok", "err", "panic"} : TexDiskClosure(out)
    \/ \E out \in {"ok", "err", "panic"}, img \in 1..MaxTexImages :
            TexCpuClosure(out, img)
    \/ \E to \in {"signaled", "lost", "oom"} : TexFenceDone(to)
    \/ TexturePoll

TexSpec == PoolIdle /\ [][TexNext]_vars

\* ---------------------------------------------------------------- C19
\* C19: once TextureFuture::poll has returned Ready, every later poll of the
\* same future also returns Ready with a texture of the same GPU image, and
\* those polls do not change the future's state.
C19_ReadyIsStable ==
    texLog.first # None =>
        /\ texLog.last = texLog.first
        /\ tex = texLog.snap
        /\ tex.state = "LoadingGpu"
        /\ texLog.last.val = tex.image
\* The future was polled again, twice, after the poll that returned Ready,
\* having gone through all three states in that first poll.
C19_Witness ==
    /\ texLog.first # None
    /\ texLog.polls >= 3
    /\ texLog.ready = texLog.polls
    /\ tex.disk.complete /\ tex.disk.data = None

\* ---------------------------------------------------------------- C22
\* Position of a SpriteState in the order LoadingDisk, LoadingCpu, LoadingGpu.
StateRank(st) ==
    CASE st = "LoadingDisk" -> 1
      [] st = "LoadingCpu" -> 2
      [] st = "LoadingGpu" -> 3
      [] OTHER -> 0

\* C22: over every poll the state of a TextureFuture only moves forward along
\* LoadingDisk, LoadingCpu, LoadingGpu, each stage's future having been
\* consumed on the way; a poll does not stop in a stage whose future was
\* already complete; and Ready is returned only from LoadingGpu with the
\* upload fence signaled.
C22_ForwardOnly ==
    [][/\ StateRank(tex'.state) >= StateRank(tex.state)
       /\ tex'.state \in {"LoadingCpu", "LoadingGpu"} =>
              tex'.disk.complete /\ tex'.disk.data = None
       /\ tex'.state = "LoadingGpu" =>
              tex'.cpu.complete /\ tex'.cpu.data = None /\ tex'.image # 0
       /\ texLog'.polls # texLog.polls =>
            /\ tex'.state = "LoadingDisk" =>
                  ~(tex.disk.complete /\ tex.disk.data = OkSubfuture)
            /\ tex'.state = "LoadingCpu" =>
                  ~(tex.cpu.complete /\ tex.cpu.data.tag = "ok")
            /\ texLog'.last.tag = "ready" =>
                  /\ tex'.state = "LoadingGpu"
                  /\ texFence = "signaled"
                  /\ texLog'.last.val = tex'.image]_vars

\* The first poll of a future found all three stages complete, went from
\* LoadingDisk to LoadingGpu and returned Ready.
C22_Witness ==
    /\ texLog.polls = 1 /\ texLog.ready = 1
    /\ tex.state = "LoadingGpu"

\* ---------------------------------------------------------------- C23
\* C23: a poll that ends in LoadingGpu has waited on the fence with a zero
\* timeout and returns Ready when the fence is signaled, Pending with the
\* state unchanged when it is not yet signaled, and an Err (never a panic)
\* for every fence error.
C23_FenceOutcomes ==
    [][(texLog'.polls # texLog.polls /\ tex'.state = "LoadingGpu") =>
            /\ WaitTimeout = 0
            /\ texFence = "signaled" => texLog'.last = R("ready", tex'.image)
            /\ texFence = "unsignaled" =>
                  /\ texLog'.last = Pending
                  /\ tex.state = "LoadingGpu" => tex' = tex
            /\ texFence \in {"lost", "oom"} => texLog'.last.tag = "err"]_vars

\* ======================================================================
\* Mesh::from_file and the .nmdl decoder (batch/mesh/mesh/codec.rs)
\* ======================================================================
notMesh == <<poolVars, fbVars, gbVars, textVars, texVars,
    winVars,
    slotVars,
    fontVars,
    lockVars>>

\* Vertices, indices and materials of a mesh file.
MaxVertices == 2
MaxIndices == 2
MaxMaterials == 1
\* The GPU allocation that runs out of memory is one of the first MaxOomAt.
MaxOomAt == 2

\* A file is a stream of items, one item per read call of the decoder; len
\* is the number of items the stream holds.
\* codec.rs:27-42  the header: magic number, version, and nine fields.
HeaderLen == 11
\* The sections follow the header in the order of its offset fields:
\* positions, normals, main texcoords, lightmap texcoords, indices, materials.
PositionsOffset(f) == HeaderLen
NormalsOffset(f) == PositionsOffset(f) + f.vertex_count
TexcoordsMainOffset(f) == NormalsOffset(f) + f.vertex_count
TexcoordsLightmapOffset(f) == TexcoordsMainOffset(f) + f.vertex_count
IndicesOffset(f) == TexcoordsLightmapOffset(f) + f.vertex_count
MaterialsOffset(f) == IndicesOffset(f) + f.index_count
FileLen(f) == MaterialsOffset(f) + f.material_count

\* A GPU allocation call in loader state st: it fails if it is call number
\* st.oomAt, and is counted either way.
Alloc(st) ==
    [st EXCEPT !.allocs = @ + 1,
               !.result = IF st.allocs + 1 = st.oomAt
                          THEN "DeviceMemoryAllocError" ELSE @]
\* seek(Start(offset)) and count reads: an error at the end of the stream.
ReadItems(st, offset, count) ==
    IF offset + count <= st.file.len THEN st
    ELSE [st EXCEPT !.result = "IoError"]
\* Run step(st) unless an earlier `?` has returned.
Then(st, next) == IF st.result = "ok" THEN next ELSE st

\* codec.rs:276-295  buffer_from_file: allocate the staging buffer (286),
\* read count items into it (290-292), ImmutableBuffer::from_buffer (294).
BufferFromFile(st, offset, count) ==
    LET tmpbuf == Alloc(st)
        read == Then(tmpbuf, ReadItems(tmpbuf, offset, count))
    IN Then(read, Alloc(read))

\* codec.rs:17-274  from_nice_model on file f.
FromNiceModel(f, oomAt) ==
    LET s0 == [file |-> f, oomAt |-> oomAt, allocs |-> 0, result |-> "ok"]
        header == ReadItems(s0, 0, HeaderLen)
        positions ==
            Then(header, BufferFromFile(header, PositionsOffset(f),
                                        f.vertex_count))
        normals ==
            Then(positions, BufferFromFile(positions, NormalsOffset(f),
                                           f.vertex_count))
        texcoords ==
            Then(normals, BufferFromFile(normals, TexcoordsMainOffset(f),
                                         f.vertex_count))
        indices ==
            Then(texcoords, BufferFromFile(texcoords, IndicesOffset(f),
                                           f.index_count))
        \* 98-145  the materials: the same three steps, written out; the
        \* materials name no texture (name sizes 0), so 177-250 read nothing
        materials ==
            Then(indices, BufferFromFile(indices, MaterialsOffset(f),
                                         f.material_count))
        \* 252-255  position_pool.next(position)?, rotation_pool.next(..)?
        position == Then(materials, Alloc(materials))
        rotation == Then(position, Alloc(position))
    IN [rotation EXCEPT !.result = IF @ = "ok" THEN "Mesh" ELSE @]

\* The mesh files given to the loader: whole ones and every truncation.
Files ==
    {f \in [vertex_count : 1..MaxVertices, index_count : 1..MaxIndices,
            material_count : 1..MaxMaterials,
            len : 0..(HeaderLen + 4 * MaxVertices + MaxIndices + MaxMaterials)] :
        f.len <= FileLen(f)}

\* mesh/mod.rs:37-48  Mesh::from_file: spawn_fs of the decoder.
MeshFromFile(f, oomAt) ==
    /\ mesh_load.state = "none"
    /\ mesh_load' = [NoMeshLoad EXCEPT !.state = "queued", !.file = f,
                                       !.oomAt = oomAt, !.chan = NewChan]
    /\ UNCHANGED notMesh

\* The disk pool's worker runs the closure: from_nice_model, whose Result is
\* sent to the future (cpu_pool.rs:57-60).
MeshWorkerRun ==
    /\ mesh_load.state = "queued"
    /\ LET done == FromNiceModel(mesh_load.file, mesh_load.oomAt) IN
        mesh_load' =
            [mesh_load EXCEPT
                !.state = "done",
                !.allocs = done.allocs,
                !.result = done.result,
                !.chan = ChanSend(@, IF done.result = "Mesh" THEN R("ok", 1)
                                     ELSE R("err", done.result))]
    /\ UNCHANGED notMesh

\* The task polls the future of the load until it resolves.
MeshFuturePoll ==
    /\ mesh_load.state \in {"queued", "done"}
    /\ mesh_load.poll = Pending
    /\ LET p == CpuFuturePoll(mesh_load.chan) IN
        /\ p.res # Pending
        /\ mesh_load' = [mesh_load EXCEPT !.chan = p.ch, !.poll = p.res]
    /\ UNCHANGED notMesh

MeshNext ==
    \/ \E f \in Files, oomAt \in 0..MaxOomAt : MeshFromFile(f, oomAt)
    \/ MeshWorkerRun
    \/ MeshFuturePoll

MeshSpec == PoolIdle /\ [][MeshNext]_vars

\* ---------------------------------------------------------------- C20
\* C20: loading a mesh from a byte stream truncated at any point makes the
\* load task resolve to an error (not a panic, not a Mesh), and no GPU buffer
\* allocation is performed for such an input.
C20_TruncatedIsCleanError ==
    (mesh_load.state = "done"
        /\ mesh_load.file.len < FileLen(mesh_load.file)) =>
            /\ mesh_load.result \notin {"Mesh", "panic"}
            /\ mesh_load.poll # Pending => mesh_load.poll.tag = "err"
            /\ mesh_load.allocs = 0

\* ======================================================================
\* Window::present and EventsLoop::poll_events (window.rs, lib.rs)
\* ======================================================================
notWin == <<poolVars, fbVars, gbVars, textVars, texVars, meshVars,
    slotVars,
    fontVars,
    lockVars>>

\* window.rs:62-118, lib.rs:72-84  a window is created: its flag starts false
\* and is registered in the events loop under the window's id.
CreateWindow(w) ==
    /\ ~window[w].created
    /\ \A v \in Windows : v < w => window[v].created
    /\ ~events_loop.panicked
    /\ window' = [window EXCEPT ![w] = [NoWindow EXCEPT !.created = TRUE]]
    /\ events_loop' = [events_loop EXCEPT !.resized = @ \cup {w}]
    /\ UNCHANGED present
    /\ UNCHANGED notWin

\* winit queues an event for a window; with a Resized event the extent of
\* the surface has changed, so the swapchain no longer matches it.
WinitEvent(ev, w) ==
    /\ window[w].created
    /\ ~events_loop.panicked
    /\ events_loop.sent < MaxEvents
    /\ events_loop' = [events_loop EXCEPT
            !.events = Append(@, [event |-> ev, window_id |-> w]),
            !.sent = @ + 1]
    /\ window' = IF ev = "Resized" THEN [window EXCEPT ![w].stale = TRUE]
                 ELSE window
    /\ UNCHANGED present
    /\ UNCHANGED notWin

\* lib.rs:138, window.rs:41  resized[&window_id]: HashMap's Index panics when
\* the key is absent.
Lookup(resized, window_id) == window_id \in resized

\* lib.rs:132-144, window.rs:35-47  the closure poll_events runs for one
\* queued event.
HandleEvent ==
    /\ ~events_loop.panicked
    /\ events_loop.events # <<>>
    /\ LET e == Head(events_loop.events)
           rest == [events_loop EXCEPT !.events = Tail(@)]
       IN CASE e.event = "CloseRequested" ->
                    /\ events_loop' = [rest EXCEPT !.resized = @ \ {e.window_id}]
                    /\ UNCHANGED window
            [] e.event = "Resized" ->
                    IF Lookup(events_loop.resized, e.window_id)
                    THEN /\ events_loop' = rest
                         /\ window' = [window EXCEPT ![e.window_id].resized = TRUE]
                    ELSE /\ events_loop' = [rest EXCEPT !.panicked = TRUE]
                         /\ UNCHANGED window
            [] OTHER -> events_loop' = rest /\ UNCHANGED window
    /\ UNCHANGED present
    /\ UNCHANGED notWin

\* An early return that leaves the flag as the swap left it.
StoreNothing(flag) == flag
\* window.rs:130, 144, 165  self.resized.store(true, Ordering::Relaxed)
StoreTrue(flag) == TRUE

\* window.rs:121  self.resized.swap(false, Ordering::Relaxed)
PresentSwap(w) ==
    /\ present.pc = "idle"
    /\ window[w].created
    /\ window[w].ret # "panic"
    /\ present' = [window |-> w, pc |-> "swapped", took |-> window[w].resized]
    /\ window' = [window EXCEPT ![w].resized = FALSE, ![w].ret = "running"]
    /\ UNCHANGED events_loop
    /\ UNCHANGED notWin

\* Leaving present(): by return, or by a panic that unwinds the caller.
PresentReturn(w, how) ==
    /\ present' = [window |-> 0, pc |-> "idle", took |-> FALSE]
    /\ window' = [window EXCEPT
            ![w].ret = how,
            ![w].resized = IF how \in {"UnsupportedDimensions", "AcquireOutOfDate",
                                       "FlushOutOfDate"}
                           THEN StoreTrue(@) ELSE @]

\* window.rs:122-139  the branch taken when the swap returned true: the
\* swapchain is recreated with the current extent of the surface.
PresentRecreate(out) ==
    /\ present.pc = "swapped" /\ present.took
    /\ LET w == present.window IN
        CASE out = "Ok" ->
                /\ present' = [present EXCEPT !.pc = "recreated"]
                /\ window' = [window EXCEPT ![w].stale = FALSE]
          [] out = "UnsupportedDimensions" -> PresentReturn(w, out)
          [] OTHER -> PresentReturn(w, "panic")
    /\ UNCHANGED events_loop
    /\ UNCHANGED notWin

\* window.rs:141-148  acquire_next_image
PresentAcquire(out) ==
    /\ \/ present.pc = "swapped" /\ ~present.took
       \/ present.pc = "recreated"
    /\ LET w == present.window IN
        CASE out = "Ok" ->
                /\ present' = [present EXCEPT !.pc = "acquired"]
                /\ UNCHANGED window
          [] out = "OutOfDate" -> PresentReturn(w, "AcquireOutOfDate")
          [] OTHER -> PresentReturn(w, "panic")
    /\ UNCHANGED events_loop
    /\ UNCHANGED notWin

\* window.rs:150-169  the drawables are recorded and the frame is presented
\* and flushed.
PresentFlush(out) ==
    /\ present.pc = "acquired"
    /\ LET w == present.window IN
        CASE out = "Ok" -> PresentReturn(w, "frame")
          [] out = "OutOfDate" -> PresentReturn(w, "FlushOutOfDate")
          [] OTHER -> PresentReturn(w, "panic")
    /\ UNCHANGED events_loop
    /\ UNCHANGED notWin

WinNext ==
    \/ \E w \in Windows : CreateWindow(w)
    \/ \E ev \in {"Resized", "CloseRequested", "Focused"}, w \in Windows : WinitEvent(ev, w)
    \/ HandleEvent
    \/ \E w \in Windows : PresentSwap(w)
    \/ \E out \in {"Ok", "UnsupportedDimensions", "Other"} : PresentRecreate(out)
    \/ \E out \in {"Ok", "OutOfDate", "Other"} : PresentAcquire(out)
    \/ \E out \in {"Ok", "OutOfDate", "Other"} : PresentFlush(out)

WinSpec == PoolIdle /\ [][WinNext]_vars

\* ---------------------------------------------------------------- C24
\* A Resized event for window w is still waiting in winit's queue.
ResizedQueued(w) ==
    \E i \in 1..Len(events_loop.events) :
        events_loop.events[i] = [event |-> "Resized", window_id |-> w]

\* C24: no resize notification is lost by Window::present. The flag is cleared
\* only by the swap at the start of a call, which hands the value it read to
\* that call; while the loop and the window are alive, a swapchain that is
\* out of step with its surface has its notification queued, stored in the
\* flag, or taken by the call in progress; and a call that returned because
\* the swapchain was unusable left the flag true.
C24_NoResizeLost ==
    /\ [](\A w \in Windows :
            window[w].ret \in {"UnsupportedDimensions", "AcquireOutOfDate",
                               "FlushOutOfDate"} => window[w].resized)
    /\ [](~events_loop.panicked =>
            \A w \in Windows :
                (window[w].stale /\ window[w].ret # "panic") =>
                    \/ ResizedQueued(w)
                    \/ window[w].resized
                    \/ present = [window |-> w, pc |-> "swapped", took |-> TRUE])
    /\ [][\A w \in Windows :
            (window[w].resized /\ ~window'[w].resized) =>
                /\ present.pc = "idle"
                /\ present' = [window |-> w, pc |-> "swapped", took |-> TRUE]]_vars

\* A Resized event was stored while a present() call that had already taken
\* an earlier notification was recreating the swapchain.
C24_Witness ==
    /\ present.pc = "recreated"
    /\ window[present.window].resized
    /\ window[present.window].stale

\* ---------------------------------------------------------------- C30
\* C30: whatever events are delivered, the handler of a Resized event finds
\* the flag of its window in the resized map, also when the CloseRequested
\* event of that window was handled before: the lookup never fails.
C30_ResizedLookupFound == ~events_loop.panicked

\* ======================================================================
\* The descriptor slot of a material (batch/mesh/mesh/mod.rs, codec.rs)
\* ======================================================================
notSlot == <<poolVars, fbVars, gbVars, textVars, texVars, meshVars, winVars,
    fontVars,
    lockVars>>

\* Atom::take: the slot is emptied and its content returned.
AtomTake(slot) == [slot |-> "none", ret |-> slot]
\* A plain store in place of set_if_none.
AtomSet(slot, v) == v
\* Atom::set_if_none: the value is stored only into an empty slot.
AtomSetIfNone(slot, v) == IF slot = "none" THEN v ELSE slot
\* Atom::swap: the value is stored, the old content is handed back.
AtomSwap(slot, v) == [slot |-> v, ret |-> slot]

\* mesh/mod.rs:83-104  let desc = mat.desc.take().unwrap(), then the draw
\* with desc; unwrap panics on an empty slot.
MakeCommandsTake ==
    /\ make_commands.pc \in {"idle", "loop"}
    /\ make_commands.frames < MaxFrames
    /\ LET m == make_commands.mat
           t == AtomTake(mesh_materials[m].desc)
       IN IF t.ret = "none"
          THEN /\ make_commands' = [make_commands EXCEPT !.pc = "panic"]
               /\ UNCHANGED mesh_materials
          ELSE /\ make_commands' = [make_commands EXCEPT !.pc = "taken",
                                                         !.desc = t.ret]
               /\ mesh_materials' = [mesh_materials EXCEPT ![m].desc = t.slot]
    /\ UNCHANGED notSlot

\* mesh/mod.rs:106-109  mat.desc.set_if_none(desc), then the next material
\* or the end of the call.
MakeCommandsSetIfNone ==
    /\ make_commands.pc = "taken"
    /\ LET m == make_commands.mat
           last == m = MaxMeshMaterials
       IN /\ mesh_materials' = [mesh_materials EXCEPT
                ![m].desc = AtomSetIfNone(@, make_commands.desc)]
          /\ make_commands' =
                [pc |-> IF last THEN "idle" ELSE "loop",
                 mat |-> IF last THEN 1 ELSE m + 1,
                 desc |-> "none",
                 frames |-> make_commands.frames + (IF last THEN 1 ELSE 0),
                 raced |-> make_commands.raced \/ mesh_materials[m].desc # "none"]
    /\ UNCHANGED notSlot

\* codec.rs:228-249  the continuation of the material's texture futures runs
\* on the executor: desc.swap(textured descriptor set).
TextureContinuation(m) ==
    /\ ~mesh_materials[m].swapped
    /\ mesh_materials' = [mesh_materials EXCEPT
            ![m] = [desc |-> AtomSwap(@.desc, "textured").slot, swapped |-> TRUE]]
    /\ UNCHANGED make_commands
    /\ UNCHANGED notSlot

SlotNext ==
    \/ MakeCommandsTake
    \/ MakeCommandsSetIfNone
    \/ \E m \in MeshMaterials : TextureContinuation(m)

SlotSpec == PoolIdle /\ [][SlotNext]_vars

\* ---------------------------------------------------------------- C25
\* Material m's descriptor is in the hands of make_commands, out of its slot.
InHand(m) == make_commands.pc = "taken" /\ make_commands.mat = m

FontLoadCall(g, bitmap, fail) ==
    /\ load_log.calls < MaxLoads
    /\ LET known == font.glyphs[g] # "absent"
           one(on) == IF on THEN 1 ELSE 0
       IN /\ known => ~bitmap /\ ~fail
          /\ fail => bitmap
          /\ font' = IF known \/ fail THEN font ELSE GlyphInsert(font, g, bitmap)
          /\ load_log' =
                [calls |-> load_log.calls + 1,
                 rasterised |-> [load_log.rasterised EXCEPT ![g] = @ + one(bitmap)],
                 failed |-> [load_log.failed EXCEPT ![g] = @ + one(fail)],
                 inserted |-> [load_log.inserted EXCEPT
                                    ![g] = @ + one(~known /\ ~fail)],
                 last |-> [id |-> g, present |-> known,
                           glyphs |-> font.glyphs, futures |-> font.futures]]
    /\ UNCHANGED <<text_sprite, fences, lastDraw>>
    /\ UNCHANGED <<poolVars, fbVars, gbVars, texVars, meshVars, winVars, slotVars,
                   lockVars>>

FontSpec ==
    PoolIdle /\ [][\E g \in Glyphs, bitmap, fail \in BOOLEAN :
                        FontLoadCall(g, bitmap, fail)]_vars

\* ---------------------------------------------------------------- C27
\* C27: each glyph id is rasterised and uploaded at most once over the
\* lifetime of the Font; a load of a glyph id already in glyphs leaves glyphs
\* and futures unchanged; futures holds a fence only for glyph ids that are in
\* glyphs with a bitmap.
C27_GlyphLoadedOnce ==
    /\ \A g \in Glyphs : load_log.rasterised[g] <= 1
    /\ load_log.last.present =>
            font.glyphs = load_log.last.glyphs /\ font.futures = load_log.last.futures
    /\ \A g \in font.futures : font.glyphs[g] = "some"

\* C27, amended: each glyph id is inserted into glyphs at most once, and is
\* rasterised once for that insertion and once more only for each earlier
\* load of it that failed; a load of a glyph id already in glyphs rasterises
\* nothing and leaves glyphs and futures unchanged; futures holds a fence
\* only for glyph ids that are in glyphs with a bitmap.
C27_GlyphInsertedOnce ==
    /\ \A g \in Glyphs :
        /\ load_log.inserted[g] <= 1
        /\ load_log.inserted[g] = 1 <=> font.glyphs[g] # "absent"
        /\ load_log.rasterised[g] =
                load_log.failed[g] + (IF font.glyphs[g] = "some" THEN 1 ELSE 0)
    /\ load_log.last.present =>
            font.glyphs = load_log.last.glyphs /\ font.futures = load_log.last.futures
    /\ \A g \in font.futures : font.glyphs[g] = "some"

\* A glyph was loaded after a failed load of it, and then loaded again while
\* already present.
C27_Witness ==
    /\ load_log.calls = 3
    /\ load_log.last.present
    /\ load_log.failed[load_log.last.id] = 1
    /\ font.glyphs[load_log.last.id] = "some"

\* ======================================================================
\* The mutexes of CPU_POOL and FS_POOL (cpu_pool.rs:5-42)
\* ======================================================================
\* A guard that is never dropped.
UnlockNever(mutex, p) == mutex
\* cpu_pool.rs:15, 23  the MutexGuard is a temporary of the statement
\* POOL.lock().unwrap().dispatch(func): it is dropped when dispatch returned.
Unlock(mutex, p) == [mutex EXCEPT ![p] = -1]

\* cpu_pool.rs:10-42  an application thread enters spawn_cpu, spawn_fs or
\* spawn_fs_then_cpu and calls lock() on the pool's mutex.
SpawnCall(t, op) ==
    /\ t > 0
    /\ spawners.thread[t].pc = "idle"
    /\ spawners.calls < MaxSpawns
    /\ spawners' = [spawners EXCEPT
            !.calls = @ + 1,
            !.thread[t] = [pc |-> "waiting",
                           pool |-> IF op = "spawn_cpu" THEN "cpu" ELSE "fs",
                           chain |-> op = "spawn_fs_then_cpu"]]
    /\ UNCHANGED pool_mutex
    /\ UNCHANGED <<poolVars, fbVars, gbVars, textVars, texVars, meshVars,
                   winVars, slotVars, fontVars>>

\* Mutex::lock returns once the mutex is free.
MutexLock(t) ==
    /\ spawners.thread[t].pc = "waiting"
    /\ pool_mutex[spawners.thread[t].pool] = -1
    /\ pool_mutex' = [pool_mutex EXCEPT ![spawners.thread[t].pool] = t]
    /\ spawners' = [spawners EXCEPT !.thread[t].pc = "locked"]
    /\ UNCHANGED <<poolVars, fbVars, gbVars, textVars, texVars, meshVars,
                   winVars, slotVars, fontVars>>

\* cpu_pool.rs:52-66  dispatch queues the closure on the pool without
\* blocking and returns; the guard is dropped.
DispatchUnlock(t) ==
    /\ spawners.thread[t].pc = "locked"
    /\ LET me == spawners.thread[t] IN
        /\ spawners' = [spawners EXCEPT
                !.thread[t] = [pc |-> "idle", pool |-> "fs", chain |-> FALSE],
                !.fs_queue = IF me.pool = "fs" THEN Append(@, me.chain) ELSE @,
                !.cpu_jobs = IF me.pool = "cpu" THEN @ + 1 ELSE @]
        /\ pool_mutex' = Unlock(pool_mutex, me.pool)
    /\ UNCHANGED <<poolVars, fbVars, gbVars, textVars, texVars, meshVars,
                   winVars, slotVars, fontVars>>

\* cpu_pool.rs:36-39, texture.rs:24-46  the disk pool's worker runs the next
\* closure; the closure of spawn_fs_then_cpu, when func_fs returned Ok, calls
\* spawn_cpu from the worker thread.
FsWorkerRun(ok) ==
    /\ spawners.thread[0].pc = "idle"
    /\ spawners.fs_queue # <<>>
    /\ spawners' = [spawners EXCEPT
            !.fs_queue = Tail(@),
            !.thread[0] = IF Head(spawners.fs_queue) /\ ok
                          THEN [pc |-> "waiting", pool |-> "cpu", chain |-> FALSE]
                          ELSE @]
    /\ UNCHANGED pool_mutex
    /\ UNCHANGED <<poolVars, fbVars, gbVars, textVars, texVars, meshVars,
                   winVars, slotVars, fontVars>>

LockNext ==
    \/ \E t \in 1..MaxCallers, op \in {"spawn_cpu", "spawn_fs", "spawn_fs_then_cpu"} :
            SpawnCall(t, op)
    \/ \E t \in 0..MaxCallers : MutexLock(t)
    \/ \E t \in 0..MaxCallers : DispatchUnlock(t)
    \/ \E ok \in BOOLEAN : FsWorkerRun(ok)

LockSpec == PoolIdle /\ [][LockNext]_vars

\* ---------------------------------------------------------------- C29
\* C29: the mutexes of FS_POOL and CPU_POOL cannot deadlock: a mutex is held
\* only by a thread that is inside dispatch on that pool, so no thread waits
\* for one mutex while holding the other, and as long as a thread is inside
\* a spawn call or a closure is queued on the disk pool some thread can take
\* a step.
C29_NoDeadlock ==
    /\ \A p \in Pools : \A t \in 0..MaxCallers :
            pool_mutex[p] = t <=>
                spawners.thread[t].pc = "locked" /\ spawners.thread[t].pool = p
    /\ \A p \in Pools : pool_mutex[p] \in -1..MaxCallers
    /\ ((\E t \in 0..MaxCallers : spawners.thread[t].pc # "idle")
            \/ spawners.fs_queue # <<>>) =>
          ENABLED ((\E t \in 0..MaxCallers : MutexLock(t) \/ DispatchUnlock(t))
                        \/ (\E ok \in BOOLEAN : FsWorkerRun(ok)))

\* The disk worker waits for the CPU pool's mutex, which a caller of
\* spawn_cpu holds, while another caller holds the disk pool's mutex.
C29_Witness ==
    /\ spawners.thread[0].pc = "waiting"
    /\ pool_mutex["cpu"] > 0
    /\ pool_mutex["fs"] > 0

====
